---- MODULE Spec2Model ----
(***************************************************************************)
(* Model of the authoritative game server of the paint platformer:         *)
(*   GameServerManager (src/server.js, line 246 on): the round state        *)
(*     machine QUEUE -> PLAYING -> ENDED -> QUEUE, the game loop, the       *)
(*     asynchronous pause checks, the ENDED timer, joins and disconnects;   *)
(*   GameServer (src/server/game-logic.js): the fixed-timestep simulation,  *)
(*     the player store, the block colour grid and its dirty set, and the   *)
(*     snapshots.                                                           *)
(*                                                                         *)
(* Units.  Wall-clock time is counted in units of 1/3000 s, the coarsest   *)
(* unit in which both one millisecond (Date.now()) and one fixed timestep  *)
(* (1/60 s) are whole numbers.  Lengths are counted in 1/60 pixel, so that *)
(* velocity * fixedTimestep is a whole number: a velocity of v px/s moves  *)
(* v length units per tick.  Velocities are in px/s as in the source.      *)
(***************************************************************************)
EXTENDS Integers, Sequences, FiniteSets, TLC

\* ------------------------------------------------------------------------
\* Program constants
\* ------------------------------------------------------------------------
TICK_RATE == 60
SNAPSHOT_RATE == 12
MS_PER_SEC == 1000
QUEUE_SECONDS == 60
GAME_SECONDS == 120
ENDED_DELAY_MS == 5000
QUEUE_RECHECK_MS == 100
MAX_DELTA_MS == 100
MAX_UPDATES == 5

GRAVITY == 1500
JUMP_POWER == -600
JUMP_PAD_BOUNCE == -900
SPEED == 180
MAX_FALL_SPEED == 1200
MAX_JUMPS == 2

GAME_WIDTH == 1920
GAME_HEIGHT == 1080
MAP_PADDING == 20
JUMP_PAD_INDEX == 9

\* ------------------------------------------------------------------------
\* Bounds of the model
\* ------------------------------------------------------------------------
\* Connections (socket ids) that may join.
MaxPlayers == 3
\* Pause checks of the queue expiry that may be pending at once.
MaxPendingChecks == 2
\* Rounds after whose start no second socket joins the queue any more.
MaxRounds == 2
\* Disconnections in one run.
MaxLeaves == 1
\* Sockets that queue in the runs checked for progress.
MaxFairPlayers == 2
MaxPackets == 2
MaxSequence == 2
MaxSteps == 3
\* calls of setBlockColor in a run of the commit specification
MaxCommits == 2
\* Simulation ticks over which update(deltaTime) is followed on its own.
MaxUpdateTicks == 10
\* Seconds between two iterations of the game loop (the loop's timer may be
\* served late; the model lets the event loop serve it at this gap).
LoopGapSec == 60

\* ------------------------------------------------------------------------
\* Units
\* ------------------------------------------------------------------------
UnitsPerSec == 3 * MS_PER_SEC
Ms(n) == n * (UnitsPerSec \div MS_PER_SEC)
Sec(n) == n * UnitsPerSec
\* this.fixedTimestep = 1/60 (seconds), in time units
FixedTimestep == UnitsPerSec \div TICK_RATE
\* length units per pixel
SubPx == TICK_RATE
Px(n) == n * SubPx

Min(a, b) == IF a <= b THEN a ELSE b
Max(a, b) == IF a >= b THEN a ELSE b
Abs(a) == IF a >= 0 THEN a ELSE -a

PlayerIds == 1..MaxPlayers
Teams == {"red", "blue"}
Colors == {"white", "red", "blue"}
None == "none"

\* ------------------------------------------------------------------------
\* The map (the JSON map file is an input of the program; the model fixes
\* one small map on the default 63 x 43 grid)
\* ------------------------------------------------------------------------
MapCols == 63
MapRows == 43

\* mapData.blocks: [row, col, imageIndex]
MapBlocks ==
  { <<40, c, 0>> : c \in 10..13 }           \* floor
    \cup { <<40, 14, JUMP_PAD_INDEX>> }     \* jump pad, three cells wide
    \cup { <<39, 9, 0>>, <<39, 17, 0>> }    \* walls
    \cup { <<36, 11, 0>> }                  \* ceiling
    \cup { <<41, 10, 0>> }                  \* foundation under the floor

\* mapData.spawns
MapSpawns ==
  [red  |-> << [row |-> 40, col |-> 10], [row |-> 40, col |-> 12] >>,
   blue |-> << [row |-> 40, col |-> 11], [row |-> 40, col |-> 13] >>]

\* mapData.bombSpawns
MapBombSpawns == << [row |-> 40, col |-> 13] >>

\* loadMap: block size and grid origin
BlockWidth ==
  Min((GAME_WIDTH - 2 * MAP_PADDING) \div MapCols,
      (GAME_HEIGHT - 2 * MAP_PADDING) \div MapRows)
BlockHeight == BlockWidth
CHAR_WIDTH == Px(BlockWidth)
CHAR_HEIGHT == Px(BlockHeight)
StartX == (Px(GAME_WIDTH) - Px(BlockWidth) * MapCols) \div 2
StartY == (Px(GAME_HEIGHT) - Px(BlockHeight) * MapRows) \div 2

\* loadMap: the cells holding a block (entries outside the grid are skipped)
BlockCells ==
  { <<b[1], b[2]>> : b \in { m \in MapBlocks :
      m[1] >= 0 /\ m[1] < MapRows /\ m[2] >= 0 /\ m[2] < MapCols } }
ImageIndex(cell) ==
  (CHOOSE m \in MapBlocks : m[1] = cell[1] /\ m[2] = cell[2])[3]
IsJumpPad(cell) == ImageIndex(cell) = JUMP_PAD_INDEX

\* block geometry: blocks[row][col] = { x, y, width, height }, and the
\* width used by every geometry query (a jump pad is three blocks wide)
BlockLeft(cell) == StartX + cell[2] * Px(BlockWidth)
BlockTop(cell) == StartY + cell[1] * Px(BlockHeight)
BlockRight(cell) ==
  BlockLeft(cell) + (IF IsJumpPad(cell) THEN 3 * Px(BlockWidth) ELSE Px(BlockWidth))
BlockBottom(cell) == BlockTop(cell) + Px(BlockHeight)

\* loadMap: spawn points { x, y, row, col }
SpawnPointOf(s) ==
  [x |-> StartX + s.col * Px(BlockWidth) + Px(BlockWidth) \div 2,
   y |-> StartY + s.row * Px(BlockHeight),
   row |-> s.row, col |-> s.col]
SpawnPoints ==
  [t \in Teams |-> [i \in 1..Len(MapSpawns[t]) |-> SpawnPointOf(MapSpawns[t][i])]]

\* "null" of the geometry queries (every block top is a positive number)
NoValue == 0 - 1

\* row-major iteration order of the nested row/col loops
CellOrder(cell) == cell[1] * MapCols + cell[2]
FirstCell(S) == CHOOSE c \in S : \A d \in S : CellOrder(c) <= CellOrder(d)

CharLeft(x) == x - CHAR_WIDTH \div 2
CharRight(x) == x + CHAR_WIDTH \div 2
CharTop(y) == y - CHAR_HEIGHT

\* ------------------------------------------------------------------------
\* Geometry queries of GameServer
\* ------------------------------------------------------------------------
\* getGroundY(x, y): top of the highest block under the character's
\* footprint, between 3 px above and 50 px below its bottom edge
GroundCandidates(x, y) ==
  { c \in BlockCells :
      /\ CharLeft(x) < BlockRight(c) /\ CharRight(x) > BlockLeft(c)
      /\ BlockTop(c) - y >= -Px(3) /\ BlockTop(c) - y <= Px(50) }
HighestTop(cand) ==
  IF cand = {} THEN NoValue
  ELSE BlockTop(CHOOSE c \in cand : \A d \in cand : BlockTop(c) <= BlockTop(d))
GetGroundY(x, y) == HighestTop(GroundCandidates(x, y))

\* checkCollision: the AABB test with the vertical epsilon of 0.5 px
CollisionEpsilon == Px(1) \div 2
Overlaps(c, x, y) ==
  /\ CharLeft(x) < BlockRight(c) /\ CharRight(x) > BlockLeft(c)
  /\ CharTop(y) < BlockBottom(c) - CollisionEpsilon
  /\ y > BlockTop(c) + CollisionEpsilon
\* checkCollision: the one-way rule of a jump pad ("continue")
\* (variant for the mutation check: a jump pad is as solid as a block)
JumpPadSolid(c, y, velocityY) == FALSE
JumpPadPasses(c, y, velocityY) ==
  LET distanceFromTop == y - BlockTop(c)
  IN  \/ velocityY < 0
      \/ distanceFromTop <= Px(5)
      \/ (distanceFromTop > Px(5) /\ distanceFromTop <= Px(BlockHeight) + Px(10))
      \/ (CharTop(y) >= BlockTop(c) /\ CharTop(y) < BlockBottom(c))
CollidingCells(x, y, velocityY) ==
  { c \in BlockCells :
      Overlaps(c, x, y) /\ ~(IsJumpPad(c) /\ JumpPadPasses(c, y, velocityY)) }
\* checkCollision(x, y, velocityY, prevY) -> { collided, blockBottom }: the
\* first colliding block in row-major order decides; both branches on prevY
\* return the same result
CollisionResult(hits, velocityY) ==
  IF hits = {} THEN [collided |-> FALSE, blockBottom |-> NoValue]
  ELSE [collided |-> TRUE,
        blockBottom |-> IF velocityY < 0 THEN BlockBottom(FirstCell(hits))
                        ELSE NoValue]
CheckCollision(x, y, velocityY, prevY) ==
  CollisionResult(CollidingCells(x, y, velocityY), velocityY)

\* isTouchingBlock / collectBlockTouches: the touch distances, scaled with
\* the block size
TouchDistance == Max(Px(3), (5 * Px(BlockWidth)) \div 20)
CeilingTouchDistance == Max(Px(5), (8 * Px(BlockWidth)) \div 20)

VOverlap(c, y) == CharTop(y) < BlockBottom(c) /\ y > BlockTop(c)
HOverlap(c, x) == CharLeft(x) < BlockRight(c) /\ CharRight(x) > BlockLeft(c)
Within(v, centre, d) == v >= centre - d /\ v <= centre + d

\* isTouchingBlock(x, y)
IsTouchingBlock(x, y) ==
  \E c \in BlockCells :
    \/ (Within(CharRight(x), BlockLeft(c), TouchDistance) /\ VOverlap(c, y))
    \/ (Within(CharLeft(x), BlockRight(c), TouchDistance) /\ VOverlap(c, y))
    \/ (Within(y, BlockTop(c), CeilingTouchDistance) /\ HOverlap(c, x))
    \/ (Within(CharTop(y), BlockBottom(c), TouchDistance) /\ HOverlap(c, x))

\* checkJumpPadCollision(x, y)
CheckJumpPadCollision(x, y) ==
  \E c \in BlockCells : IsJumpPad(c) /\ HOverlap(c, x) /\ VOverlap(c, y)

\* getJumpPadAt(x, groundY) !== null
HasJumpPadAt(x, groundY) ==
  \E c \in BlockCells :
    IsJumpPad(c) /\ HOverlap(c, x) /\ Abs(groundY - BlockTop(c)) < Px(2)

\* the map bounds of the character's centre
MapLeft == StartX + CHAR_WIDTH \div 2
MapRight == StartX + MapCols * Px(BlockWidth) - CHAR_WIDTH \div 2
ClampX(x) == Max(MapLeft, Min(MapRight, x))

\* getSpawnPoint(team): round-robin; spawnIndices is kept modulo the number
\* of spawn points, which is all the code reads of it
SpawnAt(si, team) == SpawnPoints[team][(si[team] % Len(SpawnPoints[team])) + 1]
NextSpawnIndices(si, team) ==
  [si EXCEPT ![team] = (si[team] + 1) % Len(SpawnPoints[team])]

\* ------------------------------------------------------------------------
\* The per-player step of updateGame (deltaTime is always the fixed timestep)
\* ------------------------------------------------------------------------
\* GRAVITY * deltaTime, in px/s per tick
GravityPerTick == GRAVITY \div TICK_RATE
\* SPEED * deltaTime, in length units per tick
SpeedPerTick == (SPEED * SubPx) \div TICK_RATE
\* velocityY * deltaTime, in length units
DeltaY(velocityY) == (velocityY * SubPx) \div TICK_RATE

\* STEP 1: ground check before the input is processed
GroundSnap(p, groundY) ==
  IF groundY # NoValue /\ Abs(p.y - groundY) < Px(2) /\ Abs(p.velocityY) < 36
  THEN [p EXCEPT !.y = groundY, !.velocityY = 0, !.onGround = TRUE, !.jumpsUsed = 0]
  ELSE [p EXCEPT !.onGround = FALSE]
GroundCheck(p) == GroundSnap(p, GetGroundY(p.x, p.y))

\* applyMovement: "already touching" a block edge in the direction of travel
AlreadyTouching(p, dx) ==
  \E c \in BlockCells :
    /\ VOverlap(c, p.y)
    /\ \/ (dx > 0 /\ Within(CharRight(p.x), BlockLeft(c), Px(2)))
       \/ (dx < 0 /\ Within(CharLeft(p.x), BlockRight(c), Px(2)))
\* applyMovement: the block the character is snapped to, the first in
\* row-major order that the moved box overlaps (no epsilon)
SnapCells(newX, y) == { c \in BlockCells : HOverlap(c, newX) /\ VOverlap(c, y) }
\* (variant for the mutation check: the character is left one pixel from
\* the edge)
SnapToWithGap(cells, dx) ==
  IF cells = {} THEN NoValue
  ELSE IF dx > 0 THEN BlockLeft(FirstCell(cells)) - CHAR_WIDTH \div 2 - Px(1)
  ELSE BlockRight(FirstCell(cells)) + CHAR_WIDTH \div 2 + Px(1)
SnapTo(cells, dx) ==
  IF cells = {} THEN NoValue
  ELSE IF dx > 0 THEN BlockLeft(FirstCell(cells)) - CHAR_WIDTH \div 2
  ELSE BlockRight(FirstCell(cells)) + CHAR_WIDTH \div 2
SnapPosition(newX, y, dx) == SnapTo(SnapCells(newX, y), dx)
\* STEP 2: applyMovement(playerId, deltaTime)
MoveDx(inp) ==
  (IF inp.a THEN -SpeedPerTick ELSE 0) + (IF inp.d THEN SpeedPerTick ELSE 0)
MovedX(p, newX, touching, collision, newPosition) ==
  IF touching THEN p.x
  ELSE IF ~collision.collided THEN ClampX(newX)
  ELSE IF newPosition # NoValue /\ Abs(p.x - newPosition) > 0
       THEN ClampX(newPosition)
  ELSE p.x
MoveBy(p, dx) ==
  IF dx = 0 THEN p
  ELSE [p EXCEPT !.x = ClampX(MovedX(p, p.x + dx, AlreadyTouching(p, dx),
                                     CheckCollision(p.x + dx, p.y, p.velocityY, NoValue),
                                     SnapPosition(p.x + dx, p.y, dx)))]
ApplyMovement(p, inp) == MoveBy(p, MoveDx(inp))

\* STEP 2.5: processJumpInput(playerId): the player
JustPressedW(inp) == inp.w /\ ~inp.wasPressingW
IsOnJumpPad(x, currentGroundY) ==
  currentGroundY # NoValue /\ HasJumpPadAt(x, currentGroundY)
\* (variant for the mutation check: the double jump is not counted against
\* MAX_JUMPS)
ProcessJumpInputNoQuota(p, inp) ==
  IF ~JustPressedW(inp) THEN p
  ELSE IF IsOnJumpPad(p.x, GetGroundY(p.x, p.y)) \/ CheckJumpPadCollision(p.x, p.y)
       THEN p
  ELSE IF p.onGround
       THEN [p EXCEPT !.velocityY = JUMP_POWER, !.jumpsUsed = 1, !.onGround = FALSE]
  ELSE IF IsTouchingBlock(p.x, p.y)
       THEN [p EXCEPT !.velocityY = JUMP_POWER, !.jumpsUsed = 0]
  ELSE IF p.velocityY > 0
       THEN [p EXCEPT !.velocityY = JUMP_POWER, !.jumpsUsed = p.jumpsUsed + 1]
  ELSE p
ProcessJumpInput(p, inp) ==
  IF ~JustPressedW(inp) THEN p
  ELSE IF IsOnJumpPad(p.x, GetGroundY(p.x, p.y)) \/ CheckJumpPadCollision(p.x, p.y)
       THEN p
  ELSE IF p.onGround
       THEN [p EXCEPT !.velocityY = JUMP_POWER, !.jumpsUsed = 1, !.onGround = FALSE]
  ELSE IF IsTouchingBlock(p.x, p.y)
       THEN [p EXCEPT !.velocityY = JUMP_POWER, !.jumpsUsed = 0]
  ELSE IF p.jumpsUsed < MAX_JUMPS /\ p.velocityY > 0
       THEN [p EXCEPT !.velocityY = JUMP_POWER, !.jumpsUsed = p.jumpsUsed + 1]
  ELSE p
\* (variant for the mutation check: wasPressingW is not updated)
LatchJumpInputNever(inp) ==
  [inp EXCEPT !.edge = FALSE,
              !.triggers = IF JustPressedW(inp) THEN @ + 1 ELSE @]
\* processJumpInput: the input latch (wasPressingW = w after the check);
\* the check is counted in triggers and the edge is consumed
LatchJumpInput(inp) ==
  [inp EXCEPT !.wasPressingW = inp.w,
              !.edge = FALSE,
              !.triggers = IF JustPressedW(inp) THEN @ + 1 ELSE @]

\* (variant for the mutation check: the fall speed is not capped)
ApplyGravityUncapped(p) == [p EXCEPT !.velocityY = p.velocityY + GravityPerTick]
\* STEP 3: gravity
ApplyGravity(p) ==
  [p EXCEPT !.velocityY = Min(p.velocityY + GravityPerTick, MAX_FALL_SPEED)]

\* STEP 4: vertical movement with the jump-pad rules
Bounce(p) ==
  [p EXCEPT !.velocityY = JUMP_PAD_BOUNCE, !.jumpsUsed = 0, !.onGround = FALSE]
VerticalMoveTo(p, newY, willBeInJumpPad, newGroundY, jumpPad, collision) ==
  LET enteringJumpPad == ~p.wasInJumpPad /\ willBeInJumpPad
      bounce == Bounce(p)
  IN  IF p.velocityY > 0
      THEN IF newGroundY # NoValue /\ newY >= newGroundY
           THEN IF jumpPad
                THEN [bounce EXCEPT !.y = newGroundY, !.wasInJumpPad = TRUE]
                ELSE IF ~collision.collided
                     THEN [p EXCEPT !.y = newY, !.onGround = FALSE]
                     ELSE [p EXCEPT !.y = newGroundY, !.velocityY = 0,
                                    !.onGround = TRUE, !.jumpsUsed = 0]
           ELSE IF enteringJumpPad
                THEN [bounce EXCEPT !.y = newY, !.wasInJumpPad = TRUE]
                ELSE IF ~collision.collided
                     THEN [p EXCEPT !.y = newY, !.onGround = FALSE]
                     ELSE [p EXCEPT !.velocityY = 0, !.onGround = FALSE]
      ELSE IF enteringJumpPad
           THEN [bounce EXCEPT !.y = newY]
           ELSE IF CheckJumpPadCollision(p.x, p.y) /\ p.velocityY < 0
                THEN [p EXCEPT !.y = newY, !.onGround = FALSE, !.wasInJumpPad = TRUE]
                ELSE IF ~collision.collided
                     THEN [p EXCEPT !.y = newY, !.onGround = FALSE,
                                    !.wasInJumpPad = willBeInJumpPad]
                     ELSE IF willBeInJumpPad /\ p.velocityY < 0
                          THEN [p EXCEPT !.y = newY, !.onGround = FALSE,
                                         !.wasInJumpPad = TRUE]
                          ELSE [p EXCEPT
                                  !.y = IF p.velocityY < 0 /\ collision.blockBottom # NoValue
                                        THEN collision.blockBottom + CHAR_HEIGHT
                                        ELSE p.y,
                                  !.velocityY = 0, !.onGround = FALSE,
                                  !.jumpsUsed = 0, !.wasInJumpPad = FALSE]
NewY(p) == p.y + DeltaY(p.velocityY)
VerticalMove(p) ==
  VerticalMoveTo(p, NewY(p), CheckJumpPadCollision(p.x, NewY(p)),
                 GetGroundY(p.x, p.y), IsOnJumpPad(p.x, GetGroundY(p.x, p.y)),
                 CheckCollision(p.x, NewY(p), p.velocityY, p.y))

\* STEP 6: final ground check, skipped right after a jump-pad bounce
\* (variant for the mutation check: the final ground check does nothing)
FinalGroundSnapNever(p, finalGroundY) == p
FinalGroundSnap(p, finalGroundY) ==
  LET justBouncedOnJumpPad == p.velocityY < -400 /\ p.wasInJumpPad
  IN  IF justBouncedOnJumpPad THEN p
      ELSE IF finalGroundY # NoValue /\ Abs(p.y - finalGroundY) < Px(3)
                /\ Abs(p.velocityY) < 36
           THEN IF HasJumpPadAt(p.x, finalGroundY)
                THEN [p EXCEPT !.y = finalGroundY, !.onGround = FALSE]
                ELSE [p EXCEPT !.y = finalGroundY, !.velocityY = 0,
                               !.onGround = TRUE, !.jumpsUsed = 0]
      ELSE IF p.velocityY > 0 THEN [p EXCEPT !.onGround = FALSE]
      ELSE p
FinalGroundCheck(p) == FinalGroundSnap(p, GetGroundY(p.x, p.y))

\* the jump-pad latch for the next tick
UpdateJumpPadState(p) == [p EXCEPT !.wasInJumpPad = CheckJumpPadCollision(p.x, p.y)]

\* respawn inside updateGame: position from getSpawnPoint(team)
RespawnAt(p, spawnPoint) ==
  [p EXCEPT !.x = spawnPoint.x, !.y = spawnPoint.y, !.velocityY = 0, !.onGround = TRUE]

\* safety check: a character inside a block is put on the ground or respawned;
\* st = [p |-> player, si |-> spawnIndices]
PutOnGroundOrRespawn(st, groundY) ==
  IF groundY # NoValue
  THEN [st EXCEPT !.p = [st.p EXCEPT !.y = groundY, !.velocityY = 0, !.onGround = TRUE]]
  ELSE [p |-> RespawnAt(st.p, SpawnAt(st.si, st.p.team)),
        si |-> NextSpawnIndices(st.si, st.p.team)]
SafetyCheck(st) ==
  IF CheckJumpPadCollision(st.p.x, st.p.y) THEN st
  ELSE IF ~CheckCollision(st.p.x, st.p.y, 0, NoValue).collided THEN st
  ELSE PutOnGroundOrRespawn(st, GetGroundY(st.p.x, st.p.y))

\* boundary check
BoundaryCheck(p) == [p EXCEPT !.x = ClampX(p.x)]

\* a character below the map is put on the ground or respawned
FallOutCheck(st) ==
  IF ~(st.p.y > Px(GAME_HEIGHT)) THEN st
  ELSE PutOnGroundOrRespawn(st, GetGroundY(st.p.x, Px(GAME_HEIGHT)))

\* the body of players.forEach in updateGame, for one player with its input
\* state: [p |-> player, inp |-> input state, si |-> spawnIndices]
BeforeJump(p, inp) == ApplyMovement(GroundCheck(p), inp)
AfterJump(p, inp) == ProcessJumpInput(BeforeJump(p, inp), inp)
BeforeVerticalMove(p, inp) == ApplyGravity(AfterJump(p, inp))
MovePlayer(p, inp) ==
  UpdateJumpPadState(FinalGroundCheck(VerticalMove(BeforeVerticalMove(p, inp))))
BoundaryStep(st) == [st EXCEPT !.p = BoundaryCheck(st.p)]
\* the player as the steps of the body find and leave it: at the start,
\* around applyMovement, processJumpInput and the vertical movement
StepTraceOf(p, inp, g, q, r, v) ==
  [start |-> p, inp |-> inp, beforeMovement |-> g, beforeJump |-> q, afterJump |-> r,
   beforeVerticalMove |-> v, afterVerticalMove |-> VerticalMove(v)]
TraceGravity(p, inp, g, q, r) == StepTraceOf(p, inp, g, q, r, ApplyGravity(r))
TraceJump(p, inp, g, q) == TraceGravity(p, inp, g, q, ProcessJumpInput(q, inp))
TraceMovement(p, inp, g) == TraceJump(p, inp, g, ApplyMovement(g, inp))
StepTrace(p, inp) == TraceMovement(p, inp, GroundCheck(p))
Stepped(st, inp) == [p |-> st.p, inp |-> LatchJumpInput(inp), si |-> st.si]
StepPlayer(p, inp, si) ==
  Stepped(FallOutCheck(BoundaryStep(SafetyCheck([p |-> MovePlayer(p, inp), si |-> si]))),
          inp)

\* ------------------------------------------------------------------------
\* GameServer: the entity store.  The GameServer object is one record gs:
\*   players               Map playerId -> player, as the sequence of its
\*                         values in insertion order
\*   playerInputs          Map playerId -> latched keys (a function on its keys)
\*   lastProcessedSequence Map playerId -> sequence (a function on its keys)
\*   bombs, thrownBombs    arrays
\*   gameTime, accumulator in time units
\*   spawnIndices, blockColors, changedBlocks
\*   highest               the highest sequence applied per player (not
\*                         program state)
\*   hist                  history of the block writes since the last
\*                         getSnapshot (not program state): the cells whose
\*                         colour changed, the spawn-adjacent cells touched
\*                         without a change, the cells marked by a reset
\* ------------------------------------------------------------------------
NoHist == [changed |-> {}, spawn |-> {}, reset |-> {}]

\* the input state of a player: the latched keys of the program, and two
\* fields that are not program state:
\*   edge      a 'w' event has turned the key from released to pressed since
\*             the last step
\*   triggers  the number of steps that found the jump key "just pressed"
\*             since the last 'w' release event
NewInputState ==
  [a |-> FALSE, d |-> FALSE, w |-> FALSE, s |-> FALSE,
   wasPressingW |-> FALSE, wasPressingS |-> FALSE,
   edge |-> FALSE, triggers |-> 0]

\* Map operations on the players sequence
PlayerIndex(players, playerId) ==
  IF \E i \in 1..Len(players) : players[i].playerId = playerId
  THEN CHOOSE i \in 1..Len(players) : players[i].playerId = playerId
  ELSE 0
HasPlayer(players, playerId) == PlayerIndex(players, playerId) # 0
\* Map.set: a present key keeps its place, a new key goes last
MapSet(players, player) ==
  LET i == PlayerIndex(players, player.playerId)
  IN  IF i = 0 THEN Append(players, player) ELSE [players EXCEPT ![i] = player]
MapDelete(players, playerId) ==
  SelectSeq(players, LAMBDA q : q.playerId # playerId)
\* this.playerInputs.get(playerId), created when missing
InputOfId(s, playerId) ==
  IF playerId \in DOMAIN s.playerInputs THEN s.playerInputs[playerId]
  ELSE NewInputState
\* Map.set / Map.delete on a function
FnSet(f, k, v) == [x \in (DOMAIN f) \cup {k} |-> IF x = k THEN v ELSE f[x]]
FnDelete(f, k) == [x \in (DOMAIN f) \ {k} |-> f[x]]
EmptyFn == [x \in {} |-> 0]

\* initializeBombs: one bomb per bomb spawn inside the grid, at the top
\* centre of its block (or of its cell when the cell is empty)
BombAt(spawn, id) ==
  [id |-> id,
   x |-> StartX + spawn.col * Px(BlockWidth) + Px(BlockWidth) \div 2,
   y |-> StartY + spawn.row * Px(BlockHeight),
   collected |-> FALSE, respawnTimer |-> 0]
ValidBombSpawns ==
  SelectSeq(MapBombSpawns, LAMBDA sp :
    sp.row >= 0 /\ sp.row < MapRows /\ sp.col >= 0 /\ sp.col < MapCols)
InitializeBombs == [i \in 1..Len(ValidBombSpawns) |-> BombAt(ValidBombSpawns[i], i - 1)]
BOMB_SIZE == 20
BOMB_RESPAWN_DELAY == 10
BOMB_FUSE == 2
BOMB_MAX_Y == 1200

\* new GameServer(mapName)
NewGameServer ==
  [players |-> << >>, playerInputs |-> EmptyFn, lastProcessedSequence |-> EmptyFn,
   bombs |-> InitializeBombs, thrownBombs |-> << >>,
   gameTime |-> 0, accumulator |-> 0,
   spawnIndices |-> [t \in Teams |-> 0],
   blockColors |-> [c \in BlockCells |-> "white"],
   changedBlocks |-> {}, hist |-> NoHist, highest |-> EmptyFn, sentTick |-> 0]

\* (variant for the mutation check: the player is spawned holding a bomb)
NewPlayerWithBomb(playerId, team, spawnPoint) ==
  [playerId |-> playerId, team |-> team, x |-> spawnPoint.x, y |-> spawnPoint.y,
   velocityY |-> 0, hasBomb |-> TRUE, onGround |-> FALSE, jumpsUsed |-> 0,
   wasInJumpPad |-> FALSE]
\* addPlayer(playerId, team)
NewPlayer(playerId, team, spawnPoint) ==
  [playerId |-> playerId, team |-> team, x |-> spawnPoint.x, y |-> spawnPoint.y,
   velocityY |-> 0, hasBomb |-> FALSE, onGround |-> FALSE, jumpsUsed |-> 0,
   wasInJumpPad |-> FALSE]
AddPlayer(s, playerId, team) ==
  [s EXCEPT
     !.spawnIndices = NextSpawnIndices(s.spawnIndices, team),
     !.playerInputs = FnSet(s.playerInputs, playerId, NewInputState),
     !.players = MapSet(s.players, NewPlayer(playerId, team, SpawnAt(s.spawnIndices, team)))]

\* removePlayer(playerId)
RemovePlayer(s, playerId) ==
  [s EXCEPT !.players = MapDelete(s.players, playerId),
            !.playerInputs = FnDelete(s.playerInputs, playerId),
            !.lastProcessedSequence = FnDelete(s.lastProcessedSequence, playerId),
            !.highest = FnDelete(s.highest, playerId)]

\* applyInputs: one event { key, pressed } on the latched keys. An event
\* whose key is None stands for one with no key or with a key that is not a
\* string: input.key.toLowerCase() throws a TypeError on it.
InputKeys == {"a", "d", "w", "s"}
ToLowerCase(key) ==
  IF key = "A" THEN "a" ELSE IF key = "D" THEN "d"
  ELSE IF key = "W" THEN "w" ELSE IF key = "S" THEN "s" ELSE key
KeyThrows(event) == event.key = None
ApplyKey(inp, key, pressed) ==
  IF key \notin InputKeys THEN inp
  ELSE IF key = "a" THEN [inp EXCEPT !.a = pressed]
  ELSE IF key = "d" THEN [inp EXCEPT !.d = pressed]
  ELSE IF key = "w"
       THEN [inp EXCEPT !.wasPressingW = inp.w, !.w = pressed,
                        !.edge = IF pressed /\ ~inp.w THEN TRUE ELSE @,
                        !.triggers = IF pressed THEN @ ELSE 0]
  ELSE [inp EXCEPT !.s = pressed,
                   !.wasPressingS = IF pressed THEN inp.wasPressingS ELSE FALSE]
ApplyInputEvent(inp, event) == ApplyKey(inp, ToLowerCase(event.key), event.pressed)
\* inputs.forEach: the events are applied in order, up to the first that
\* throws
RECURSIVE ApplyInputEvents(_, _)
ApplyInputEvents(inp, events) ==
  IF events = << >> \/ KeyThrows(Head(events)) THEN inp
  ELSE ApplyInputEvents(ApplyInputEvent(inp, Head(events)), Tail(events))
\* applyInputs: the acknowledged sequence after a packet (sequence is
\* NoValue when the packet carries none)
AckSequence(acks, playerId, sequence) ==
  IF sequence # NoValue THEN FnSet(acks, playerId, sequence) ELSE acks
\* the highest sequence applied for the player so far (not program state)
HighestSequence(highest, playerId, sequence) ==
  IF sequence = NoValue THEN highest
  ELSE IF playerId \in DOMAIN highest /\ highest[playerId] >= sequence THEN highest
  ELSE FnSet(highest, playerId, sequence)
\* applyInputs(playerId, inputs, gameTime, sequence); a packet is
\* [playerId, hasInputs, inputs, sequence], hasInputs telling whether it
\* carries an inputs array at all
ApplyInputs(s, playerId, packet) ==
  IF ~HasPlayer(s.players, playerId) THEN s
  ELSE [s EXCEPT
          !.lastProcessedSequence = AckSequence(@, playerId, packet.sequence),
          !.highest = HighestSequence(@, playerId, packet.sequence),
          !.playerInputs =
            FnSet(@, playerId,
                  IF packet.hasInputs
                  THEN ApplyInputEvents(InputOfId(s, playerId), packet.inputs)
                  ELSE InputOfId(s, playerId))]
\* applyInputs throws: inputs.forEach on a packet without an array, or
\* toLowerCase on an event without a string key
ApplyInputsThrows(s, playerId, packet) ==
  /\ HasPlayer(s.players, playerId)
  /\ \/ ~packet.hasInputs
     \/ \E i \in 1..Len(packet.inputs) : KeyThrows(packet.inputs[i])

\* throwBomb(playerId, x, y, team, throwDirection)
ThrowBomb(s, playerId, x, y, team, throwDirection) ==
  LET bomb == [playerId |-> playerId, x |-> x, y |-> y, team |-> team,
               velocityX |-> throwDirection * 300, velocityY |-> -480,
               timer |-> 0, exploded |-> FALSE]
      i == PlayerIndex(s.players, playerId)
  IN  [s EXCEPT !.thrownBombs = Append(s.thrownBombs, bomb),
                !.players = IF i = 0 THEN s.players
                            ELSE [s.players EXCEPT ![i].hasBomb = FALSE]]

\* setBlockColor: a cell at a spawn point or directly beneath one
IsAtSpawn(row, col) ==
  \E t \in Teams : \E i \in 1..Len(SpawnPoints[t]) :
    \/ (SpawnPoints[t][i].row = row /\ SpawnPoints[t][i].col = col)
    \/ (row = SpawnPoints[t][i].row + 1 /\ col = SpawnPoints[t][i].col)
\* (variant for the mutation check: an unchanged cell is never marked)
SetBlockColorChangesOnly(s, row, col, color) ==
  LET cell == <<row, col>>
  IN  IF cell \notin BlockCells \/ s.blockColors[cell] = color THEN s
      ELSE [s EXCEPT !.blockColors[cell] = color,
                     !.changedBlocks = @ \cup {cell},
                     !.hist.changed = @ \cup {cell}]
\* setBlockColor(row, col, color)
SetBlockColor(s, row, col, color) ==
  LET cell == <<row, col>>
  IN  IF row < 0 \/ row >= MapRows \/ col < 0 \/ col >= MapCols THEN s
      ELSE IF cell \notin BlockCells THEN s
      ELSE IF s.blockColors[cell] # color
           THEN [s EXCEPT !.blockColors[cell] = color,
                          !.changedBlocks = @ \cup {cell},
                          !.hist.changed = @ \cup {cell}]
      ELSE IF IsAtSpawn(row, col)
           THEN [s EXCEPT !.changedBlocks = @ \cup {cell},
                          !.hist.spawn = @ \cup {cell}]
      ELSE s

\* resetAllBlocks()
ResetAllBlocks(s) ==
  [s EXCEPT !.blockColors = [c \in BlockCells |-> "white"],
            !.changedBlocks = @ \cup BlockCells,
            !.hist.changed = @ \cup { c \in BlockCells : s.blockColors[c] # "white" },
            !.hist.reset = @ \cup BlockCells]

\* countBlocksByTeam()
CountColor(colors, color) == Cardinality({ c \in BlockCells : colors[c] = color })
CountBlocksByTeam(s) ==
  [red |-> CountColor(s.blockColors, "red"), blue |-> CountColor(s.blockColors, "blue")]

\* getSnapshot(): the snapshot built, and the store after it (dirty set cleared)
PlayerView(s, p) ==
  LET known == p.playerId \in DOMAIN s.playerInputs
      inp == IF known THEN s.playerInputs[p.playerId] ELSE NewInputState
  IN  [playerId |-> p.playerId, team |-> p.team, x |-> p.x, y |-> p.y,
       velocityX |-> IF inp.d THEN SPEED ELSE IF inp.a THEN -SPEED ELSE 0,
       velocityY |-> p.velocityY, hasBomb |-> p.hasBomb, onGround |-> p.onGround,
       jumpsUsed |-> p.jumpsUsed]
\* getSnapshot: Math.floor(this.gameTime / this.fixedTimestep)
SnapshotTick(s) == s.gameTime \div FixedTimestep
SnapshotOf(s) ==
  [tick |-> SnapshotTick(s),
   gameTime |-> s.gameTime,
   players |-> [i \in 1..Len(s.players) |-> PlayerView(s, s.players[i])],
   thrownBombs |-> s.thrownBombs,
   bombs |-> [i \in 1..Len(s.bombs) |->
                [id |-> s.bombs[i].id, x |-> s.bombs[i].x, y |-> s.bombs[i].y,
                 collected |-> s.bombs[i].collected,
                 respawnTimer |-> s.bombs[i].respawnTimer]],
   blockChanges |-> { [row |-> c[1], col |-> c[2], color |-> s.blockColors[c]] :
                        c \in s.changedBlocks },
   lastProcessedSequences |-> s.lastProcessedSequence]
\* (variant for the mutation check: the dirty set is not cleared)
AfterSnapshotKeepingDirty(s) == [s EXCEPT !.hist = NoHist]
AfterSnapshot(s) == [s EXCEPT !.changedBlocks = {}, !.hist = NoHist]

\* ------------------------------------------------------------------------
\* updateGame(deltaTime): one fixed simulation step
\* ------------------------------------------------------------------------
\* players.forEach: the players are stepped in insertion order; a player
\* without input state is stepped with no key held
RECURSIVE StepPlayers(_, _)
InputOf(s, p) ==
  IF p.playerId \in DOMAIN s.playerInputs THEN s.playerInputs[p.playerId]
  ELSE NewInputState
StoreStepped(s, i, r) ==
  [s EXCEPT !.players[i] = r.p,
            !.spawnIndices = r.si,
            !.playerInputs = IF s.players[i].playerId \in DOMAIN @
                             THEN FnSet(@, s.players[i].playerId, r.inp) ELSE @]
StepPlayers(s, i) ==
  IF i > Len(s.players) THEN s
  ELSE StepPlayers(
         StoreStepped(s, i, StepPlayer(s.players[i], InputOf(s, s.players[i]),
                                       s.spawnIndices)),
         i + 1)

\* the steps of one run of players.forEach (the step of a player reads
\* nothing that the step of another player writes but the spawn counters)
StepTraces(s) ==
  [i \in 1..Len(s.players) |-> StepTrace(s.players[i], InputOf(s, s.players[i]))]

\* thrownBombs.filter: every bomb is moved, then dropped once its fuse has
\* run out, it has exploded, or it has left the map
MoveThrownBomb(b) ==
  LET vy == b.velocityY + GravityPerTick
  IN  [b EXCEPT !.velocityY = vy, !.y = b.y + DeltaY(vy),
                !.x = b.x + DeltaY(b.velocityX), !.timer = b.timer + FixedTimestep]
ThrownBombStays(b) ==
  ~(b.exploded \/ b.timer > Sec(BOMB_FUSE) \/ b.y > Px(BOMB_MAX_Y))
UpdateThrownBombs(bombs) ==
  SelectSeq([i \in 1..Len(bombs) |-> MoveThrownBomb(bombs[i])], ThrownBombStays)

\* collectBlockTouches: the player is within the touch distance of a side
\* of the block
IsTouching(p, c) ==
  \/ (Within(CharRight(p.x), BlockLeft(c), TouchDistance) /\ VOverlap(c, p.y))
  \/ (Within(CharLeft(p.x), BlockRight(c), TouchDistance) /\ VOverlap(c, p.y))
  \/ (Within(p.y, BlockTop(c), TouchDistance) /\ HOverlap(c, p.x))
  \/ (Within(CharTop(p.y), BlockBottom(c), TouchDistance) /\ HOverlap(c, p.x))
\* blockTouches after all players were collected: the cells touched, and for
\* each the team of the last toucher in the store's iteration order
TouchedCells(players) ==
  { c \in BlockCells : \E i \in 1..Len(players) : IsTouching(players[i], c) }
\* (variant for the mutation check: the first toucher keeps the cell)
FirstToucher(players, c) ==
  CHOOSE i \in 1..Len(players) :
    /\ IsTouching(players[i], c)
    /\ \A j \in 1..Len(players) : IsTouching(players[j], c) => j >= i
LastToucher(players, c) ==
  CHOOSE i \in 1..Len(players) :
    /\ IsTouching(players[i], c)
    /\ \A j \in 1..Len(players) : IsTouching(players[j], c) => j <= i
TouchTeam(players, c) == players[LastToucher(players, c)].team
\* blockTouches.forEach(setBlockColor): the touched cells are distinct, so
\* the order of the commits does not matter; row-major order is used
RECURSIVE CommitTouches(_, _)
CommitTouches(s, cells) ==
  IF cells = {} THEN s
  ELSE LET c == FirstCell(cells)
       IN  CommitTouches(SetBlockColor(s, c[1], c[2], TouchTeam(s.players, c)),
                         cells \ {c})

\* checkBombCollision(player, bomb)
CheckBombCollision(p, b) ==
  /\ CharLeft(p.x) < b.x + Px(BOMB_SIZE) \div 2
  /\ CharRight(p.x) > b.x - Px(BOMB_SIZE) \div 2
  /\ CharTop(p.y) < b.y
  /\ p.y > b.y - Px(BOMB_SIZE)
\* bombs.forEach: respawn timer of a collected bomb
TickBomb(b) ==
  IF ~b.collected THEN b
  ELSE IF b.respawnTimer + FixedTimestep >= Sec(BOMB_RESPAWN_DELAY)
       THEN [b EXCEPT !.collected = FALSE, !.respawnTimer = 0]
       ELSE [b EXCEPT !.respawnTimer = b.respawnTimer + FixedTimestep]
\* bombs.forEach: the players that collect an uncollected bomb (the inner
\* players.forEach runs over every player once the bomb was found uncollected)
Collectors(players, b) ==
  { i \in 1..Len(players) : ~players[i].hasBomb /\ CheckBombCollision(players[i], b) }
RECURSIVE UpdateBombs(_, _)
UpdateBombs(s, k) ==
  IF k > Len(s.bombs) THEN s
  ELSE LET b == TickBomb(s.bombs[k])
           takers == IF b.collected THEN {} ELSE Collectors(s.players, b)
           b2 == IF takers = {} THEN b
                 ELSE [b EXCEPT !.collected = TRUE, !.respawnTimer = 0]
       IN  UpdateBombs(
             [s EXCEPT !.bombs[k] = b2,
                       !.players = [i \in 1..Len(s.players) |->
                                      IF i \in takers
                                      THEN [s.players[i] EXCEPT !.hasBomb = TRUE]
                                      ELSE s.players[i]]],
             k + 1)

\* updateGame(deltaTime)
MoveThrownBombs(s) == [s EXCEPT !.thrownBombs = UpdateThrownBombs(@)]
PaintTouches(s) == CommitTouches(s, TouchedCells(s.players))
\* (variant for the mutation check: the touches are committed before the
\* players are stepped)
UpdateGamePaintingFirst(s) ==
  UpdateBombs(MoveThrownBombs(StepPlayers(PaintTouches(s), 1)), 1)
UpdateGame(s) == UpdateBombs(PaintTouches(MoveThrownBombs(StepPlayers(s, 1))), 1)

\* ------------------------------------------------------------------------
\* update(deltaTime): the fixed-timestep accumulator
\* ------------------------------------------------------------------------
\* one pass of the while loop
FixedStep(s) ==
  [UpdateGame([s EXCEPT !.gameTime = @ + FixedTimestep])
     EXCEPT !.accumulator = @ - FixedTimestep]
\* (variant for the mutation check: the loop has no cap on its passes)
RECURSIVE UpdateLoopUncapped(_, _)
UpdateLoopUncapped(s, updates) ==
  IF s.accumulator >= FixedTimestep
  THEN UpdateLoopUncapped(FixedStep(s), updates + 1)
  ELSE s
RECURSIVE UpdateLoop(_, _)
UpdateLoop(s, updates) ==
  IF s.accumulator >= FixedTimestep /\ updates < MAX_UPDATES
  THEN UpdateLoop(FixedStep(s), updates + 1)
  ELSE s
\* (variant for the mutation check: what is left after the loop is kept)
ClampAccumulatorNever(s) == s
\* the clamp after the loop
ClampAccumulator(s) ==
  IF s.accumulator >= FixedTimestep THEN [s EXCEPT !.accumulator = FixedTimestep] ELSE s
\* update(deltaTime), deltaTime in time units
Update(s, deltaTime) ==
  LET capped == Min(deltaTime, Ms(MAX_DELTA_MS))
  IN  ClampAccumulator(UpdateLoop([s EXCEPT !.accumulator = s.accumulator + capped], 0))
\* the number of fixed steps update(deltaTime) runs
UpdatesRun(s, deltaTime) ==
  Min(MAX_UPDATES, (s.accumulator + Min(deltaTime, Ms(MAX_DELTA_MS))) \div FixedTimestep)

\* ------------------------------------------------------------------------
\* GameServerManager (server.js)
\*
\* Time advances only in the game loop: an iteration runs a gap of LoopGaps
\* after the previous one (setTimeout served late), and every other event
\* happens between two iterations. Countdowns are in time units.
\* ------------------------------------------------------------------------
VARIABLES
  gameState,        \* 'QUEUE' | 'PLAYING' | 'ENDED'
  queueCountdown,   \* this.queueCountdown
  gameCountdown,    \* this.gameCountdown
  snapshotCounter,  \* this.snapshotCounter
  roundNumber,      \* this.roundNumber
  players,          \* this.players: the queue, in join order
  gs,               \* this.gameServer
  tokenDistributionInProgress,
  gamePaused,       \* AdminConfig.gamePaused in the database
  checks,           \* the callers of the checkGamePaused() promises not settled yet
                    \* (at most MaxPendingChecks)
  endedTimers,      \* remaining time of the setTimeout(.., 5000) of endGame
  saves,            \* saveRoundToDatabase calls in flight
  distributions,    \* handleTokenDistribution calls in flight, oldest first
  currentTokenAmount, \* this.currentTokenAmount, with currentTokenAccount and
                    \* currentTokenMint: NoTokens (null), or the tokens bought in
                    \* a queue phase, named by the round they are there for
  tracing,          \* what is followed of the emissions and of the calls in
                    \* flight: with "distributions" the arguments of the
                    \* payouts (if not, a payout in flight stands for any
                    \* arguments), with "broadcasts" the broadcastGameState()
                    \* calls waiting for their pause check, with "ticks" the
                    \* tick of the last snapshot sent, in gs.sentTick (not
                    \* program state, and the same in every state of a run)
  leaves,           \* disconnections so far (not program state)
  sent,             \* client messages served so far (not program state)
  running,          \* the Node process is alive (no uncaught exception yet)
  ev                \* the last event served and what it emitted (not program state)

vars ==
  << gameState, queueCountdown, gameCountdown, snapshotCounter, roundNumber,
     players, gs, tokenDistributionInProgress, gamePaused, checks, endedTimers,
     saves, distributions, tracing, currentTokenAmount, leaves, sent, running, ev >>

Phases == {"QUEUE", "PLAYING", "ENDED"}
LoopGaps == {Sec(LoopGapSec)}

\* the manager's fields as one record, so that a handler is a function on
\* it; snapshots and results collect what the handler emits, in order
Mgr ==
  [gameState |-> gameState, queueCountdown |-> queueCountdown,
   gameCountdown |-> gameCountdown, snapshotCounter |-> snapshotCounter,
   roundNumber |-> roundNumber, players |-> players, gs |-> gs,
   tokenDistributionInProgress |-> tokenDistributionInProgress,
   checks |-> checks, endedTimers |-> endedTimers, saves |-> saves,
   distributions |-> distributions, tracing |-> tracing,
   currentTokenAmount |-> currentTokenAmount,
   snapshots |-> << >>, results |-> << >>, notices |-> << >>]
Becomes(m) ==
  /\ Len(m.checks) <= MaxPendingChecks
  /\ gameState' = m.gameState
  /\ queueCountdown' = m.queueCountdown
  /\ gameCountdown' = m.gameCountdown
  /\ snapshotCounter' = m.snapshotCounter
  /\ roundNumber' = m.roundNumber
  /\ players' = m.players
  /\ gs' = m.gs
  /\ tokenDistributionInProgress' = m.tokenDistributionInProgress
  /\ checks' = m.checks
  /\ endedTimers' = m.endedTimers
  /\ saves' = m.saves
  /\ distributions' = m.distributions
  /\ tracing' = m.tracing
  /\ currentTokenAmount' = m.currentTokenAmount

\* the event record: the handler served, the pause value its check observed,
\* the input it was given, whether it threw, the 'snapshot' and 'gameEnded'
\* messages it emitted, the names of the 'gameState' and 'queueState'
\* messages it emitted to every socket, and, for a single run of updateGame,
\* the steps of its players.forEach
Event(op, isPaused, m) ==
  [op |-> op, isPaused |-> isPaused, input |-> NoValue, threw |-> FALSE,
   steps |-> << >>, snapshots |-> m.snapshots, results |-> m.results,
   notices |-> m.notices]
\* ... of a handler that is given an input
EventOf(op, input, m) == [Event(op, FALSE, m) EXCEPT !.input = input]
Silent == [snapshots |-> << >>, results |-> << >>, notices |-> << >>]

\* broadcastSnapshot(), and the socket.emit('snapshot', ..) of the join
\* handlers: getSnapshot() and the emission
BroadcastSnapshot(m) ==
  [m EXCEPT !.snapshots = Append(m.snapshots,
                               [snap |-> SnapshotOf(m.gs), hist |-> m.gs.hist,
                                highest |-> m.gs.highest]),
            !.gs = [AfterSnapshot(m.gs) EXCEPT
                      !.sentTick = IF "ticks" \in m.tracing
                                   THEN SnapshotTick(m.gs) ELSE m.gs.sentTick]]

\* (variant for the mutation check: only the queue is announced)
BroadcastGameStateQueueOnly(m) ==
  IF m.gameState = "QUEUE" /\ "broadcasts" \in m.tracing
  THEN [m EXCEPT !.checks = Append(m.checks, "broadcast")]
  ELSE m
\* broadcastGameState(): in QUEUE the call awaits checkGamePaused() and emits
\* 'queueState' when that settles, in PLAYING it emits 'gameState' at once,
\* in ENDED it emits nothing
BroadcastGameState(m) ==
  IF m.gameState = "QUEUE"
  THEN IF "broadcasts" \in m.tracing
       THEN [m EXCEPT !.checks = Append(m.checks, "broadcast")]
       ELSE m
  ELSE IF m.gameState = "PLAYING"
  THEN [m EXCEPT !.notices = Append(m.notices, "gameState")]
  ELSE m

\* the token information of the constructor: null
NoTokens == 0
\* startQueueCountdown: checkGamePaused().then(.. handleCryptoOperations()),
\* which goes on when the database answers. The token contract is
\* configured where "tokens" is followed; where it is not, the call returns
\* at its first checks and is left out.
StartCryptoOperations(m) ==
  IF "tokens" \in m.tracing THEN [m EXCEPT !.checks = Append(m.checks, "crypto")] ELSE m
\* startQueueCountdown()
StartQueueCountdown(m) ==
  BroadcastSnapshot(BroadcastGameState(StartCryptoOperations(
    [m EXCEPT !.gameState = "QUEUE",
              !.queueCountdown = Sec(QUEUE_SECONDS),
              !.gs = [ResetAllBlocks(m.gs) EXCEPT !.gameTime = 0,
                                                   !.bombs = InitializeBombs,
                                                   !.thrownBombs = << >>,
                                                   !.players = << >>]])))

\* (variant for the mutation check: every player is put on the red team)
TeamOfIndexAllRed(teamIndex) == "red"
\* startGame: teams[teamIndex % 2] over this.players in insertion order
TeamOfIndex(teamIndex) == IF teamIndex % 2 = 0 THEN "red" ELSE "blue"
AssignTeams(queue) ==
  [i \in 1..Len(queue) |-> [queue[i] EXCEPT !.team = TeamOfIndex(i - 1)]]
RECURSIVE SpawnAll(_, _, _)
SpawnAll(s, queue, i) ==
  IF i > Len(queue) THEN s
  ELSE SpawnAll(AddPlayer(s, queue[i].playerId, queue[i].team), queue, i + 1)
\* startGame()
StartGame(m) ==
  LET queue == AssignTeams(m.players)
      s0 == [ResetAllBlocks(m.gs) EXCEPT !.gameTime = 0, !.bombs = InitializeBombs]
  IN  BroadcastSnapshot(BroadcastGameState(
        [m EXCEPT !.gameState = "PLAYING",
                  !.gameCountdown = Sec(GAME_SECONDS),
                  !.roundNumber = m.roundNumber + 1,
                  !.saves = m.saves + 1,
                  !.players = queue,
                  !.gs = SpawnAll(s0, queue, 1)]))

\* (variant for the mutation check: a tie goes to red)
WinnerNoTie(redBlocks, blueBlocks) ==
  IF redBlocks >= blueBlocks THEN "red" ELSE "blue"
\* endGame: the result emitted as 'gameEnded'
Winner(redBlocks, blueBlocks) ==
  IF redBlocks > blueBlocks THEN "red"
  ELSE IF blueBlocks > redBlocks THEN "blue" ELSE "tie"
GameEnded(s) ==
  LET scores == CountBlocksByTeam(s)
  IN  [redBlocks |-> scores.red, blueBlocks |-> scores.blue,
       winner |-> Winner(scores.red, scores.blue)]
\* endGame: handleTokenDistribution(winner, playersSnapshot, tokenInfo,
\* roundNumber) is called with a copy of this.players, sets the flag and
\* stays in flight at its first await
AnyArguments == [winnerTeam |-> None, playersSnapshot |-> << >>]
Distribution(m, result) ==
  IF "distributions" \in m.tracing
  THEN [roundNumber |-> m.roundNumber, winnerTeam |-> result.winner,
        playersSnapshot |-> m.players, tokenAmount |-> m.currentTokenAmount]
  ELSE [roundNumber |-> m.roundNumber, winnerTeam |-> AnyArguments.winnerTeam,
        playersSnapshot |-> AnyArguments.playersSnapshot,
        tokenAmount |-> m.currentTokenAmount]
EndedWith(m, result) ==
  LET cleared == [m.gs EXCEPT !.players = << >>, !.bombs = << >>, !.thrownBombs = << >>]
      emitted == BroadcastSnapshot([m EXCEPT !.gameState = "ENDED",
                                             !.results = Append(m.results, result),
                                          !.gs = cleared])
  IN  [emitted EXCEPT !.saves = m.saves + 1,
                   !.tokenDistributionInProgress = TRUE,
                   !.distributions = Append(m.distributions, Distribution(m, result)),
                   !.players = << >>,
                   !.endedTimers = Append(m.endedTimers, Ms(ENDED_DELAY_MS))]
\* endGame()
EndGame(m) == EndedWith(m, GameEnded(m.gs))

\* this.players.has(playerId)
Queued(queue, playerId) == \E i \in 1..Len(queue) : queue[i].playerId = playerId
RemoveAt(seq, i) == [j \in 1..(Len(seq) - 1) |-> IF j < i THEN seq[j] ELSE seq[j + 1]]

\* updateTimers: the countdown (positive) has passed a whole second,
\* Math.floor(countdown) !== Math.floor(countdown + delta)
SecondPassed(countdown, delta) ==
  countdown \div UnitsPerSec # (countdown + delta) \div UnitsPerSec
\* updateTimers(), delta time units after the previous call
UpdateTimers(m, delta) ==
  IF m.gameState = "QUEUE"
  THEN IF m.queueCountdown - delta <= 0
       THEN [m EXCEPT !.checks = Append(m.checks, "expiry"),
                      !.queueCountdown = Ms(QUEUE_RECHECK_MS)]
       ELSE IF SecondPassed(m.queueCountdown - delta, delta)
       THEN BroadcastGameState([m EXCEPT !.queueCountdown = m.queueCountdown - delta])
       ELSE [m EXCEPT !.queueCountdown = m.queueCountdown - delta]
  ELSE IF m.gameState = "PLAYING"
  THEN IF m.gameCountdown - delta <= 0
       THEN EndGame([m EXCEPT !.gameCountdown = m.gameCountdown - delta])
       ELSE IF SecondPassed(m.gameCountdown - delta, delta)
       THEN BroadcastGameState([m EXCEPT !.gameCountdown = m.gameCountdown - delta])
       ELSE [m EXCEPT !.gameCountdown = m.gameCountdown - delta]
  ELSE m

\* gameLoop: the snapshot cadence
TicksPerSnapshot == TICK_RATE \div SNAPSHOT_RATE
SnapshotCadence(m) ==
  IF m.snapshotCounter + 1 >= TicksPerSnapshot
  THEN BroadcastSnapshot([m EXCEPT !.snapshotCounter = 0])
  ELSE [m EXCEPT !.snapshotCounter = m.snapshotCounter + 1]

\* (variant for the mutation check: the simulation is ticked in every phase)
GameLoopAlwaysTicking(m, delta) ==
  SnapshotCadence(UpdateTimers(
    [m EXCEPT !.endedTimers =
                [i \in 1..Len(m.endedTimers) |-> Max(0, m.endedTimers[i] - delta)],
              !.gs = Update(m.gs, delta)], delta))
\* gameLoop(), delta time units after the previous iteration
GameLoop(m, delta) ==
  LET aged == [m EXCEPT !.endedTimers =
                 [i \in 1..Len(m.endedTimers) |-> Max(0, m.endedTimers[i] - delta)]]
      ticked == IF m.gameState = "PLAYING"
                THEN [aged EXCEPT !.gs = Update(m.gs, delta)] ELSE aged
  IN  SnapshotCadence(UpdateTimers(ticked, delta))

\* the game loop's timer fires; a timer of endGame that is due fires first
LoopReady(d) ==
  /\ running
  /\ \A i \in 1..Len(endedTimers) : endedTimers[i] > 0
  /\ (gameState = "QUEUE" /\ queueCountdown - d <= 0) => Len(checks) < MaxPendingChecks
LoopIteration(d) ==
  /\ LoopReady(d)
  /\ \E after \in { GameLoop(Mgr, d) } :
       Becomes(after) /\ ev' = Event("gameLoop", FALSE, after)
  /\ UNCHANGED << gamePaused, leaves, sent, running >>

\* checkGamePaused(): the flag in the database, or false when the read fails.
\* The read is taken at the moment the promise settles.
CheckGamePaused(failed) == IF failed THEN FALSE ELSE gamePaused

\* updateTimers: the countdown is restarted and announced
Requeue(m) == BroadcastGameState([m EXCEPT !.queueCountdown = Sec(QUEUE_SECONDS)])
\* (variants for the mutation check: one queued player is enough; the pause
\* flag is not looked at)
ExpiryCallbackOnePlayer(m, isPaused) ==
  IF isPaused THEN Requeue(m)
  ELSE IF Len(m.players) >= 1 THEN StartGame(m)
  ELSE Requeue(m)
ExpiryCallbackIgnoringPause(m, isPaused) ==
  IF Len(m.players) >= 2 THEN StartGame(m)
  ELSE Requeue(m)
\* updateTimers: the .then callback of the expiry's pause check
ExpiryCallback(m, isPaused) ==
  IF isPaused THEN Requeue(m)
  ELSE IF Len(m.players) >= 2 THEN StartGame(m)
  ELSE Requeue(m)
ExpiryPending == \E i \in 1..Len(checks) : checks[i] = "expiry"
ResolveExpiry(i, failed) ==
  /\ running
  /\ checks[i] = "expiry"
  /\ \E after \in { ExpiryCallback([Mgr EXCEPT !.checks = RemoveAt(checks, i)],
                                 CheckGamePaused(failed)) } :
       Becomes(after) /\ ev' = Event("expiryCallback", CheckGamePaused(failed), after)
  /\ UNCHANGED << gamePaused, leaves, sent, running >>

\* restartQueueIfUnpaused(), after its await
RestartQueue(m, isPaused) ==
  IF ~isPaused /\ m.gameState # "PLAYING" THEN StartQueueCountdown(m) ELSE m
ResolveRestart(i, failed) ==
  /\ running
  /\ checks[i] = "restart"
  /\ \E after \in { RestartQueue([Mgr EXCEPT !.checks = RemoveAt(checks, i)],
                               CheckGamePaused(failed)) } :
       Becomes(after) /\ ev' = Event("restartQueueIfUnpaused", CheckGamePaused(failed), after)
  /\ UNCHANGED << gamePaused, leaves, sent, running >>

\* POST /toggle-pause: the flag is flipped and saved; unpausing calls
\* restartQueueIfUnpaused()
TogglePause ==
  /\ running
  /\ gamePaused => Len(checks) < MaxPendingChecks
  /\ gamePaused' = ~gamePaused
  /\ checks' = IF gamePaused THEN Append(checks, "restart") ELSE checks
  /\ ev' = Event("togglePause", FALSE, Silent)
  /\ UNCHANGED << gameState, queueCountdown, gameCountdown, snapshotCounter, roundNumber,
                  players, gs, tokenDistributionInProgress, endedTimers,
                  saves, distributions, tracing, currentTokenAmount, leaves, sent,
                  running >>

\* io.on('connection'): handleSpectatorJoin sends the new socket the state
\* and a snapshot
SpectatorJoin ==
  /\ running
  /\ \E after \in { BroadcastSnapshot(Mgr) } :
       Becomes(after) /\ ev' = Event("handleSpectatorJoin", FALSE, after)
  /\ UNCHANGED << gamePaused, leaves, sent, running >>

\* handlePlayerJoin(socket, playerId), playerId = socket.id
HandlePlayerJoin(m, playerId) ==
  IF Queued(m.players, playerId) THEN m
  ELSE LET sent1 == BroadcastSnapshot([m EXCEPT !.players = Append(m.players,
                                         [playerId |-> playerId, team |-> None])])
       IN  IF m.gameState = "QUEUE" THEN BroadcastGameState(sent1) ELSE sent1
\* a socket that is not queued emits 'joinGame'; the sockets are named in the
\* order in which they queue
Join(id) ==
  /\ running
  /\ ~Queued(players, id)
  /\ \A j \in 1..(id - 1) : Queued(players, j)
  /\ roundNumber < MaxRounds \/ players = << >>
  /\ \E after \in { HandlePlayerJoin(Mgr, id) } :
       Becomes(after) /\ ev' = Event("handlePlayerJoin", FALSE, after)
  /\ UNCHANGED << gamePaused, leaves, sent, running >>

\* handleDisconnect(socket, playerId)
HandleDisconnect(m, playerId) ==
  IF ~Queued(m.players, playerId) THEN m
  ELSE LET left == [m EXCEPT
                      !.gs = IF HasPlayer(m.gs.players, playerId)
                             THEN RemovePlayer(m.gs, playerId) ELSE m.gs,
                      !.players = SelectSeq(m.players, LAMBDA q : q.playerId # playerId)]
       IN  IF m.gameState = "QUEUE" THEN BroadcastGameState(left) ELSE left
\* a queued socket disconnects (a socket id is a name: a later connection
\* may carry it again)
Disconnect(id) ==
  /\ running
  /\ Queued(players, id)
  /\ leaves < MaxLeaves
  /\ leaves' = leaves + 1
  /\ \E after \in { HandleDisconnect(Mgr, id) } :
       Becomes(after) /\ ev' = Event("handleDisconnect", FALSE, after)
  /\ UNCHANGED << gamePaused, sent, running >>

\* the setTimeout(.., 5000) of endGame fires
EndedTimerFire(i) ==
  /\ running
  /\ endedTimers[i] = 0
  /\ \E after \in { StartQueueCountdown([Mgr EXCEPT !.endedTimers = RemoveAt(endedTimers, i)]) } :
       Becomes(after) /\ ev' = Event("endedTimer", FALSE, after)
  /\ UNCHANGED << gamePaused, leaves, sent, running >>

\* broadcastGameState: the pause check of a call made in QUEUE settles, and
\* the call emits 'queueState' to every socket
SettleBroadcast(i, failed) ==
  /\ running
  /\ checks[i] = "broadcast"
  /\ checks' = RemoveAt(checks, i)
  /\ ev' = Event("broadcastGameState", CheckGamePaused(failed),
                 [Silent EXCEPT !.notices = << "queueState" >>])
  /\ UNCHANGED << gameState, queueCountdown, gameCountdown, snapshotCounter, roundNumber,
                  players, gs, tokenDistributionInProgress, gamePaused, endedTimers,
                  saves, distributions, tracing, currentTokenAmount, leaves, sent,
                  running >>

\* the saveRoundToDatabase calls in flight resolve or reject (a rejection is
\* logged)
SettleSave ==
  /\ running
  /\ saves > 0
  /\ saves' = 0
  /\ ev' = Event("saveSettled", FALSE, Silent)
  /\ UNCHANGED << gameState, queueCountdown, gameCountdown, snapshotCounter, roundNumber,
                  players, gs, tokenDistributionInProgress, gamePaused, checks,
                  endedTimers, distributions, tracing, currentTokenAmount, leaves,
                  sent, running >>
\* handleTokenDistribution: the entries the call works on. (Variant for the
\* mutation check: the call reads this.players when it resumes.)
LivePlayers(d, m) == m.players
SnapshotEntries(d, m) == d.playersSnapshot
\* handleTokenDistribution: the players of the winning team, which the call
\* looks up for a wallet
WinnersConsidered(d, m) ==
  { e \in { SnapshotEntries(d, m)[i] : i \in 1..Len(SnapshotEntries(d, m)) } :
      e.team = d.winnerTeam }
\* a handleTokenDistribution call in flight returns before the transfer (a
\* tie, no tokens, no key, no winner with a wallet) or throws: both clear the
\* flag. Without tokens bought no call gets further.
SettleDistribution(i) ==
  /\ running
  /\ distributions' = RemoveAt(distributions, i)
  /\ tokenDistributionInProgress' = FALSE
  /\ ev' = EventOf("distributionSettled",
                   [roundNumber |-> distributions[i].roundNumber,
                    winners |-> WinnersConsidered(distributions[i], Mgr)], Silent)
  /\ UNCHANGED << gameState, queueCountdown, gameCountdown, snapshotCounter, roundNumber,
                  players, gs, gamePaused, checks, endedTimers, saves, tracing,
                  currentTokenAmount, leaves, sent, running >>

\* handleTokenDistribution, after the transfer: the token information is
\* cleared if (roundNumber === this.roundNumber || !this.currentTokenAmount)
ClearedTokenAmount(m, d) ==
  IF d.roundNumber = m.roundNumber \/ m.currentTokenAmount = NoTokens
  THEN NoTokens ELSE m.currentTokenAmount
\* a handleTokenDistribution call in flight has transferred the tokens of its
\* round to the winners with a wallet (or has failed to) and runs to its end
CompleteDistribution(i) ==
  /\ running
  /\ distributions[i].winnerTeam \in Teams
  /\ distributions[i].tokenAmount # NoTokens
  /\ WinnersConsidered(distributions[i], Mgr) # {}
  /\ distributions' = RemoveAt(distributions, i)
  /\ tokenDistributionInProgress' = FALSE
  /\ currentTokenAmount' = ClearedTokenAmount(Mgr, distributions[i])
  /\ ev' = EventOf("distributionCompleted",
                   [roundNumber |-> distributions[i].roundNumber,
                    tokenAmount |-> distributions[i].tokenAmount], Silent)
  /\ UNCHANGED << gameState, queueCountdown, gameCountdown, snapshotCounter, roundNumber,
                  players, gs, gamePaused, checks, endedTimers, saves, tracing, leaves,
                  sent, running >>

\* handleCryptoOperations, at its end: the fees claimed and the tokens
\* bought, the token information is stored and, in QUEUE, announced; a
\* failure on the way (or the game paused) stores nothing. The tokens are
\* named by the round whose endGame is the next to read them: the round
\* under way, or else the round to come.
RoundOfTokens(m) == IF m.gameState = "PLAYING" THEN m.roundNumber ELSE m.roundNumber + 1
HandleCryptoOperations(m, bought) ==
  IF ~bought THEN m
  ELSE LET stored == [m EXCEPT !.currentTokenAmount = RoundOfTokens(m)]
       IN  IF m.gameState = "QUEUE" THEN BroadcastGameState(stored) ELSE stored
SettleCrypto(i, bought) ==
  /\ running
  /\ checks[i] = "crypto"
  /\ \E after \in { HandleCryptoOperations([Mgr EXCEPT !.checks = RemoveAt(checks, i)],
                                          bought) } :
       Becomes(after) /\ ev' = EventOf("handleCryptoOperations", bought, after)
  /\ UNCHANGED << gamePaused, leaves, sent, running >>

\* ------------------------------------------------------------------------
\* The messages of a client. A payload is a record with the field present:
\* NoData stands for an emit without an argument (data is undefined), on
\* which the destructuring of the handler throws a TypeError. No handler is
\* wrapped in a try/catch and no 'uncaughtException' listener is installed:
\* an exception ends the process, and with it the game loop.
\* ------------------------------------------------------------------------
NoData == [present |-> FALSE]
Threw(e, threw) == [e EXCEPT !.threw = threw]

\* handlePlayerInput(socket, data)
HandlePlayerInput(m, data) ==
  IF m.gameState # "PLAYING" \/ ~data.present THEN m
  ELSE [m EXCEPT !.gs = ApplyInputs(m.gs, data.playerId, data)]
HandlePlayerInputThrows(m, data) ==
  /\ m.gameState = "PLAYING"
  /\ ~data.present \/ ApplyInputsThrows(m.gs, data.playerId, data)
\* a socket emits 'playerInput'
PlayerInput(data) ==
  /\ running
  /\ sent < MaxPackets
  /\ sent' = sent + 1
  /\ running' = ~HandlePlayerInputThrows(Mgr, data)
  /\ \E after \in { HandlePlayerInput(Mgr, data) } :
       /\ Becomes(after)
       /\ ev' = Threw(EventOf("handlePlayerInput", data, after),
                      HandlePlayerInputThrows(Mgr, data))
  /\ UNCHANGED << gamePaused, leaves >>

\* handlePlayerStateSync(socket, data): the destructuring, and nothing else
HandlePlayerStateSync(m, data) == m
HandlePlayerStateSyncThrows(m, data) == ~data.present
\* a socket emits 'playerStateSync'
PlayerStateSync(data) ==
  /\ running
  /\ sent < MaxPackets
  /\ sent' = sent + 1
  /\ running' = ~HandlePlayerStateSyncThrows(Mgr, data)
  /\ \E after \in { HandlePlayerStateSync(Mgr, data) } :
       /\ Becomes(after)
       /\ ev' = Threw(EventOf("handlePlayerStateSync", data, after),
                      HandlePlayerStateSyncThrows(Mgr, data))
  /\ UNCHANGED << gamePaused, leaves >>

\* throwBomb(..) and io.emit('bombThrown', ..)
ThrownAndAnnounced(m, data) ==
  [m EXCEPT !.gs = ThrowBomb(m.gs, data.playerId, data.x, data.y, data.team,
                             data.throwDirection),
            !.notices = Append(m.notices, "bombThrown")]
\* (variant for the mutation check: the phase is not looked at)
HandleBombThrownInAnyPhase(m, data) ==
  IF ~data.present THEN m ELSE ThrownAndAnnounced(m, data)
\* handleBombThrown(socket, data)
HandleBombThrown(m, data) ==
  IF m.gameState # "PLAYING" \/ ~data.present THEN m
  ELSE ThrownAndAnnounced(m, data)
HandleBombThrownThrows(m, data) == m.gameState = "PLAYING" /\ ~data.present
\* a socket emits 'bombThrown'
BombThrown(data) ==
  /\ running
  /\ sent < MaxPackets
  /\ sent' = sent + 1
  /\ running' = ~HandleBombThrownThrows(Mgr, data)
  /\ \E after \in { HandleBombThrown(Mgr, data) } :
       /\ Becomes(after)
       /\ ev' = Threw(EventOf("handleBombThrown", data, after),
                      HandleBombThrownThrows(Mgr, data))
  /\ UNCHANGED << gamePaused, leaves >>

\* new GameServerManager(io): the fields, then startQueueCountdown()
Constructed ==
  [gameState |-> "QUEUE", queueCountdown |-> Sec(QUEUE_SECONDS),
   gameCountdown |-> Sec(GAME_SECONDS), snapshotCounter |-> 0, roundNumber |-> 0,
   players |-> << >>, gs |-> NewGameServer, tokenDistributionInProgress |-> FALSE,
   checks |-> << >>, endedTimers |-> << >>, saves |-> 0, distributions |-> << >>,
   tracing |-> {}, currentTokenAmount |-> NoTokens,
   snapshots |-> << >>, results |-> << >>, notices |-> << >>]
Started == StartQueueCountdown(Constructed)

\* every field of the manager and of its store
ServerState ==
  << gameState, queueCountdown, gameCountdown, snapshotCounter, roundNumber,
     players, gs, tokenDistributionInProgress, checks, endedTimers, saves,
     distributions >>

\* the positions of the entities of a store
Positions(s) ==
  [players |-> [i \in 1..Len(s.players) |-> << s.players[i].x, s.players[i].y >>],
   thrownBombs |-> [i \in 1..Len(s.thrownBombs) |->
                      << s.thrownBombs[i].x, s.thrownBombs[i].y >>]]

\* the manager's fields are those of the record m
Is(m) ==
  /\ gameState = m.gameState
  /\ queueCountdown = m.queueCountdown
  /\ gameCountdown = m.gameCountdown
  /\ snapshotCounter = m.snapshotCounter
  /\ roundNumber = m.roundNumber
  /\ players = m.players
  /\ gs = m.gs
  /\ tokenDistributionInProgress = m.tokenDistributionInProgress
  /\ checks = m.checks
  /\ endedTimers = m.endedTimers
  /\ saves = m.saves
  /\ distributions = m.distributions
  /\ tracing = m.tracing
  /\ currentTokenAmount = m.currentTokenAmount

Init ==
  /\ Is(Started)
  /\ gamePaused \in BOOLEAN
  /\ leaves = 0
  /\ sent = 0
  /\ running = TRUE
  /\ ev = Event("constructor", FALSE, Started)

\* the round machine with its queue
Core ==
  \/ \E d \in LoopGaps : LoopIteration(d)
  \/ \E i \in 1..Len(checks), failed \in BOOLEAN : ResolveExpiry(i, failed)
  \/ \E id \in PlayerIds : Join(id)
  \/ \E i \in 1..Len(endedTimers) : EndedTimerFire(i)

\* ... with sockets that disconnect
Next ==
  \/ Core
  \/ \E id \in PlayerIds : Disconnect(id)
Spec == Init /\ [][Next]_vars

\* ... with the admin's pause switch
NextPause ==
  \/ Core
  \/ TogglePause
  \/ \E i \in 1..Len(checks), failed \in BOOLEAN : ResolveRestart(i, failed)
SpecPause == Init /\ [][NextPause]_vars

\* ... with the collaborators' calls settling, or not. The loop's timer is
\* re-armed by every iteration, a timer of endGame fires once it is due, and
\* a pause check settles (checkGamePaused catches the failure of its read).
\* The weak fairness of the loop and of the pause checks is written out: the
\* step is taken again and again unless it is disabled again and again. A
\* step of either always changes the state, and is the only step that leaves
\* its name in ev.
LoopFairness ==
  \/ []<>(~(\E d \in LoopGaps : LoopReady(d)))
  \/ []<><<ev'.op = "gameLoop">>_vars
ExpiryFairness ==
  \/ []<>(~ExpiryPending)
  \/ []<><<ev'.op = "expiryCallback">>_vars
NextFair ==
  \/ \E d \in LoopGaps : LoopIteration(d)
  \/ \E i \in 1..Len(checks), failed \in BOOLEAN : ResolveExpiry(i, failed)
  \/ \E id \in 1..MaxFairPlayers : Join(id)
  \/ \E i \in 1..Len(endedTimers) : EndedTimerFire(i)
  \/ SettleSave
  \/ \E i \in 1..Len(distributions) : SettleDistribution(i)
SpecFair ==
  /\ Init
  /\ [][NextFair]_vars
  /\ LoopFairness
  /\ ExpiryFairness
  /\ WF_vars(\E i \in 1..Len(endedTimers) : EndedTimerFire(i))

\* ------------------------------------------------------------------------
\* update(deltaTime) on its own: a round of two players has just started,
\* the accumulator holds what earlier iterations left in it, and update is
\* called with the delta times of a loop that is served early, on time or late
\* ------------------------------------------------------------------------
UpdateDeltas == { Ms(n) : n \in {0, 1, 16, 17, 33, 50, 100, 250} }
Accumulators == { 0, 1, FixedTimestep \div 2, FixedTimestep - 1, FixedTimestep }
QueueOfTwo == << [playerId |-> 1, team |-> None], [playerId |-> 2, team |-> None] >>
RoundStarted == StartGame([Started EXCEPT !.players = QueueOfTwo])
InitUpdate ==
  /\ \E a \in Accumulators : Is([RoundStarted EXCEPT !.gs.accumulator = a])
  /\ gamePaused = FALSE
  /\ leaves = 0
  /\ sent = 0
  /\ running = TRUE
  /\ ev = Event("startGame", FALSE, RoundStarted)
UpdateCall(deltaTime) ==
  /\ running
  /\ gameState = "PLAYING"
  /\ gs.gameTime + MAX_UPDATES * FixedTimestep <= MaxUpdateTicks * FixedTimestep
  /\ gs' = Update(gs, deltaTime)
  /\ ev' = EventOf("update", deltaTime, Silent)
  /\ UNCHANGED << gameState, queueCountdown, gameCountdown, snapshotCounter, roundNumber,
                  players, tokenDistributionInProgress, gamePaused, checks, endedTimers,
                  saves, distributions, tracing, currentTokenAmount, leaves, sent,
                  running >>
NextUpdate == \E deltaTime \in UpdateDeltas : UpdateCall(deltaTime)
SpecUpdate == InitUpdate /\ [][NextUpdate]_vars

\* ------------------------------------------------------------------------
\* One simulation step on its own: update(deltaTime) is called on time, with
\* the fixed timestep and an empty accumulator, and runs updateGame once.
\* The round has two players; the first is found in one of a set of poses
\* on the map, with one of a set of latched input states.
\* ------------------------------------------------------------------------
StepCall ==
  /\ running
  /\ gameState = "PLAYING"
  /\ gs.accumulator = 0
  /\ gs.gameTime < MaxSteps * FixedTimestep
  /\ gs' = Update(gs, FixedTimestep)
  /\ ev' = [EventOf("update", FixedTimestep, Silent) EXCEPT !.steps = StepTraces(gs)]
  /\ UNCHANGED << gameState, queueCountdown, gameCountdown, snapshotCounter, roundNumber,
                  players, tokenDistributionInProgress, gamePaused, checks, endedTimers,
                  saves, distributions, tracing, currentTokenAmount, leaves, sent,
                  running >>

ColCentre(col) == StartX + col * Px(BlockWidth) + Px(BlockWidth) \div 2
FloorTop == BlockTop(<< 40, 10 >>)
\* The poses are on the lattice of the positions the program computes: x is
\* a spawn point's x plus a multiple of the 3 px of a horizontal move, y is
\* the floor's top plus a multiple of the 25/60 px of the gravity of a step,
\* and velocityY is a multiple of that gravity.
\* at rest on the floor: at the spawn point beside the left wall, 3 px from
\* that wall, and in the middle of the floor
GroundPoses ==
  { [x |-> x, y |-> FloorTop, velocityY |-> 0, jumpsUsed |-> 0] :
      x \in { ColCentre(10), ColCentre(10) + Px(3), ColCentre(12) } }
\* in the air: beside the left wall, over the floor, 3 px left of the
\* ceiling block, over or inside the jump pad, across the right edge of the
\* jump pad (under or inside the right wall), 3 px right of the jump pad, and
\* over the void ...
AirXs ==
  { ColCentre(10), ColCentre(12),
    BlockLeft(<< 36, 11 >>) - CHAR_WIDTH \div 2 - Px(3),
    ColCentre(15), BlockLeft(<< 39, 17 >>),
    BlockRight(<< 40, 14 >>) + CHAR_WIDTH \div 2 + Px(3),
    ColCentre(20) }
\* ... beside the ceiling block, over the floor, at the level of the walls,
\* at the level of the floor and at the bottom of the map ...
AirYs ==
  { BlockBottom(<< 36, 11 >>) - Px(3), FloorTop - Px(60), FloorTop - Px(10),
    FloorTop + Px(10), Px(GAME_HEIGHT) - Px(6) }
\* ... rising, at the top of a jump and falling
AirVelocities == { -300, -25, 100, 600 }
\* a character is lower than the floor's top only where the floor is not,
\* and is inside a block other than a jump pad only where it came up through
\* the jump pad
InsideBlock(x, y) == \E c \in BlockCells : Overlaps(c, x, y) /\ ~IsJumpPad(c)
AirPoses ==
  { pose \in [x : AirXs, y : AirYs, velocityY : AirVelocities, jumpsUsed : 0..MAX_JUMPS] :
      /\ pose.y > FloorTop => pose.x >= ColCentre(15)
      /\ InsideBlock(pose.x, pose.y)
           => CheckJumpPadCollision(pose.x, pose.y) /\ pose.velocityY < 0 }
Poses == GroundPoses \cup AirPoses
Posed(p, pose) ==
  [p EXCEPT !.x = pose.x, !.y = pose.y, !.velocityY = pose.velocityY,
            !.jumpsUsed = pose.jumpsUsed,
            !.onGround = pose \in GroundPoses,
            !.wasInJumpPad = CheckJumpPadCollision(pose.x, pose.y)]
\* the input states: what applyInputs makes of a packet of key events, and
\* a jump key that is held since an earlier step
KeyDown(key) == [key |-> key, pressed |-> TRUE]
KeyUp(key) == [key |-> key, pressed |-> FALSE]
StepPackets ==
  { << >>, << KeyDown("d") >>, << KeyDown("a") >>, << KeyDown("w") >>,
    << KeyDown("d"), KeyDown("w") >>, << KeyDown("a"), KeyDown("w") >> }
StepInputs ==
  { ApplyInputEvents(NewInputState, inputs) : inputs \in StepPackets }
    \cup { LatchJumpInput(ApplyInputEvents(NewInputState, << KeyDown("w") >>)) }
InitStep ==
  /\ \E pose \in Poses, inp \in StepInputs, index \in 0..(Len(SpawnPoints["red"]) - 1) :
       Is([RoundStarted EXCEPT !.gs.players[1] = Posed(@, pose),
                               !.gs.playerInputs[1] = inp,
                               !.gs.spawnIndices["red"] = index])
  /\ gamePaused = FALSE
  /\ leaves = 0
  /\ sent = 0
  /\ running = TRUE
  /\ ev = Event("startGame", FALSE, RoundStarted)
NextStep == StepCall
SpecStep == InitStep /\ [][NextStep]_vars

\* ... with the first player also at the limits of the vertical velocity:
\* leaving the jump pad with the velocity of the bounce, and one step from
\* the terminal velocity or at it after a fall of some 500 px from the top
\* of a bounce and two jumps
LimitVelocities == { JUMP_PAD_BOUNCE, MAX_FALL_SPEED - GravityPerTick, MAX_FALL_SPEED }
LimitPoses ==
  { pose \in [x : AirXs, y : AirYs, velocityY : LimitVelocities, jumpsUsed : 0..MAX_JUMPS] :
      /\ pose.y > FloorTop => pose.x >= ColCentre(15)
      /\ InsideBlock(pose.x, pose.y) => CheckJumpPadCollision(pose.x, pose.y)
      /\ IF pose.velocityY < 0 THEN CheckJumpPadCollision(pose.x, pose.y)
         ELSE pose.y >= FloorTop - Px(10) /\ ~InsideBlock(pose.x, pose.y) }
InitLimits ==
  /\ \E pose \in Poses \cup LimitPoses, inp \in StepInputs :
       Is([RoundStarted EXCEPT !.gs.players[1] = Posed(@, pose),
                               !.gs.playerInputs[1] = inp])
  /\ gamePaused = FALSE
  /\ leaves = 0
  /\ sent = 0
  /\ running = TRUE
  /\ ev = Event("startGame", FALSE, RoundStarted)
NextLimits == StepCall
SpecLimits == InitLimits /\ [][NextLimits]_vars

\* ... with sockets that connect as spectators
NextSnap ==
  \/ Core
  \/ SpectatorJoin
SpecSnap == Init /\ [][NextSnap]_vars

\* ------------------------------------------------------------------------
\* The round machine with two sockets that queue and send messages. Nothing
\* runs once a handler has thrown: every step is one of the running process.
\* ------------------------------------------------------------------------
Rounds ==
  \/ \E d \in LoopGaps : LoopIteration(d)
  \/ \E i \in 1..Len(checks), failed \in BOOLEAN : ResolveExpiry(i, failed)
  \/ \E id \in 1..MaxFairPlayers : Join(id)
  \/ \E i \in 1..Len(endedTimers) : EndedTimerFire(i)

\* ... 'playerInput' packets of socket 1 that carry a sequence number and no
\* key event
SequencePacket(sequence) ==
  [present |-> TRUE, playerId |-> 1, hasInputs |-> TRUE, inputs |-> << >>,
   sequence |-> sequence]
NextAck ==
  \/ Rounds
  \/ SpectatorJoin
  \/ \E sequence \in 1..MaxSequence : PlayerInput(SequencePacket(sequence))
SpecAck == Init /\ [][NextAck]_vars

\* ... 'playerStateSync' messages: one that reports a state that is not the
\* server's, and one without a payload
ReportedState ==
  [present |-> TRUE, playerId |-> 1, x |-> Px(100), y |-> Px(100),
   velocityY |-> JUMP_POWER, hasBomb |-> TRUE]
StateSyncPayloads == { NoData, ReportedState }
NextSync ==
  \/ Rounds
  \/ \E data \in StateSyncPayloads : PlayerStateSync(data)
SpecSync == Init /\ [][NextSync]_vars

\* ... 'bombThrown' messages of socket 1, which report a position
ReportedPositions == { << Px(100), Px(100) >>, << Px(900), Px(200) >> }
ThrowPayload(at) ==
  [present |-> TRUE, playerId |-> 1, x |-> at[1], y |-> at[2], team |-> "red",
   throwDirection |-> 1]
NextThrow ==
  \/ Rounds
  \/ \E at \in ReportedPositions : BombThrown(ThrowPayload(at))
SpecThrow == Init /\ [][NextThrow]_vars

\* ... 'playerInput' messages that carry no valid key event: an unknown key,
\* an event without a key, a packet without an inputs array, a playerId that
\* is no player's, and a message without a payload
UnknownId == MaxPlayers + 1
InputPacket(playerId, inputs) ==
  [present |-> TRUE, playerId |-> playerId, hasInputs |-> TRUE, inputs |-> inputs,
   sequence |-> NoValue]
InvalidPackets ==
  { InputPacket(1, << [key |-> "q", pressed |-> TRUE] >>),
    InputPacket(1, << [key |-> None, pressed |-> TRUE] >>),
    [InputPacket(1, << >>) EXCEPT !.hasInputs = FALSE],
    InputPacket(UnknownId, << [key |-> "d", pressed |-> TRUE] >>),
    NoData }
NextInvalid ==
  \/ Rounds
  \/ \E data \in InvalidPackets : PlayerInput(data)
SpecInvalid == Init /\ [][NextInvalid]_vars

\* ... 'playerInput' and 'bombThrown' messages of socket 1, with a payload
\* (a key press with a sequence number, a throw) and without one, in every
\* phase
PhaseInputs ==
  { [InputPacket(1, << [key |-> "d", pressed |-> TRUE] >>) EXCEPT !.sequence = MaxSequence],
    NoData }
PhaseThrows == { ThrowPayload(<< Px(100), Px(100) >>), NoData }
NextPhases ==
  \/ Rounds
  \/ \E data \in PhaseInputs : PlayerInput(data)
  \/ \E data \in PhaseThrows : BombThrown(data)
SpecPhases == Init /\ [][NextPhases]_vars

\* ------------------------------------------------------------------------
\* The jump keys of the two players of a round that has just started: the
\* steps of the simulation, and 'playerInput' packets with the key events of
\* a keyboard (a press, an auto-repeated press, a release, a release
\* followed by a press)
\* ------------------------------------------------------------------------
JumpKeyPackets ==
  { InputPacket(playerId, inputs) :
      playerId \in 1..Len(QueueOfTwo),
      inputs \in { << KeyDown("w") >>, << KeyDown("W") >>, << KeyUp("w") >>,
                   << KeyUp("w"), KeyDown("w") >> } }
InitKeys ==
  /\ Is(RoundStarted)
  /\ gamePaused = FALSE
  /\ leaves = 0
  /\ sent = 0
  /\ running = TRUE
  /\ ev = Event("startGame", FALSE, RoundStarted)
NextKeys ==
  \/ StepCall
  \/ \E data \in JumpKeyPackets : PlayerInput(data)
SpecKeys == InitKeys /\ [][NextKeys]_vars

\* ------------------------------------------------------------------------
\* The messages of a connection: in a round of two players that has just
\* started, with or without a bomb in the hand of each, socket 1 (whose
\* playerId is 1) emits 'playerInput' and 'bombThrown' messages that name
\* player 1 or player 2. A message is kept with the socket it arrived on,
\* the handler's first argument.
\* ------------------------------------------------------------------------
OnSocket(socketId, data) ==
  [f \in (DOMAIN data) \cup {"socketId"} |->
     IF f = "socketId" THEN socketId ELSE data[f]]
SocketInputs ==
  { OnSocket(1, [InputPacket(playerId, inputs) EXCEPT !.sequence = sequence]) :
      playerId \in 1..Len(QueueOfTwo),
      inputs \in { << >>, << KeyDown("d") >> },
      sequence \in { NoValue, MaxSequence } }
SocketThrows ==
  { OnSocket(1, [ThrowPayload(<< Px(100), Px(100) >>) EXCEPT !.playerId = playerId]) :
      playerId \in 1..Len(QueueOfTwo) }
InitSockets ==
  /\ \E has \in [1..Len(QueueOfTwo) -> BOOLEAN] :
       Is([RoundStarted EXCEPT !.gs.players[1].hasBomb = has[1],
                               !.gs.players[2].hasBomb = has[2]])
  /\ gamePaused = FALSE
  /\ leaves = 0
  /\ sent = 0
  /\ running = TRUE
  /\ ev = Event("startGame", FALSE, RoundStarted)
NextSockets ==
  \/ StepCall
  \/ \E data \in SocketInputs : PlayerInput(data)
  \/ \E data \in SocketThrows : BombThrown(data)
SpecSockets == InitSockets /\ [][NextSockets]_vars

\* ------------------------------------------------------------------------
\* Painting: a round of three players (red, blue, red in the store's order)
\* has just started on a map painted in one colour; every player holds a
\* movement key or none, and the fixed steps run
\* ------------------------------------------------------------------------
QueueOfThree == QueueOfTwo \o << [playerId |-> 3, team |-> None] >>
RoundOfThree == StartGame([Started EXCEPT !.players = QueueOfThree])
PreviousColors == {"white"} \cup Teams
HeldKeys == { << >>, << KeyDown("a") >>, << KeyDown("d") >> }
HeldInputs(keys) ==
  [playerId \in 1..Len(QueueOfThree) |->
     ApplyInputEvents(NewInputState, keys[playerId])]
InitPaint ==
  /\ \E color \in PreviousColors, keys \in [1..Len(QueueOfThree) -> HeldKeys] :
       Is([RoundOfThree EXCEPT !.gs.blockColors = [c \in BlockCells |-> color],
                               !.gs.playerInputs = HeldInputs(keys)])
  /\ gamePaused = FALSE
  /\ leaves = 0
  /\ sent = 0
  /\ running = TRUE
  /\ ev = Event("startGame", FALSE, RoundOfThree)
NextPaint == StepCall
SpecPaint == InitPaint /\ [][NextPaint]_vars

\* ------------------------------------------------------------------------
\* setBlockColor on its own: the map of a round that has just started is
\* painted in one colour, and setBlockColor is called on a cell of the grid
\* or outside it, with the colour of a team
\* ------------------------------------------------------------------------
CommitCells ==
  { << 40, 10 >>,         \* at a spawn point
    << 41, 10 >>,         \* directly beneath a spawn point
    << 36, 11 >>,         \* a block away from the spawn points
    << 41, 11 >>,         \* no block, directly beneath a spawn point
    << 0, 0 >>,           \* no block
    << 0 - 1, 10 >>, << MapRows, 10 >>, << 40, 0 - 1 >>, << 40, MapCols >> }
SetBlockColorCall(cell, color) ==
  /\ running
  /\ sent < MaxCommits
  /\ sent' = sent + 1
  /\ gs' = SetBlockColor(gs, cell[1], cell[2], color)
  /\ ev' = EventOf("setBlockColor", [cell |-> cell, color |-> color], Silent)
  /\ UNCHANGED << gameState, queueCountdown, gameCountdown, snapshotCounter, roundNumber,
                  players, tokenDistributionInProgress, gamePaused, checks, endedTimers,
                  saves, distributions, tracing, currentTokenAmount, leaves,
                  running >>
InitCommit ==
  /\ \E color \in PreviousColors :
       Is([RoundStarted EXCEPT !.gs.blockColors = [c \in BlockCells |-> color]])
  /\ gamePaused = FALSE
  /\ leaves = 0
  /\ sent = 0
  /\ running = TRUE
  /\ ev = Event("startGame", FALSE, RoundStarted)
NextCommit == \E cell \in CommitCells, color \in Teams : SetBlockColorCall(cell, color)
SpecCommit == InitCommit /\ [][NextCommit]_vars

\* ------------------------------------------------------------------------
\* A thrown bomb in flight: in a round of two players that stand at their
\* spawn points, a socket reports a throw while no bomb is in flight, and
\* the fixed steps run until the bomb is dropped from the list. The server
\* takes the bomb's position from the message: one throw is reported from
\* the thrower's spawn point, one from the place above the map from where
\* the bomb is inside a floor block when its fuse runs out.
\* ------------------------------------------------------------------------
\* the steps after which the timer of a bomb is greater than the fuse
FuseTicks == Sec(BOMB_FUSE) \div FixedTimestep + 1
\* the way a bomb has fallen after n steps: the sum of the steps
\* DeltaY(k * GravityPerTick - 480) for k in 1..n
Fallen(n) == DeltaY(GravityPerTick * ((n * (n + 1)) \div 2) - 480 * n)
FuseCell == << 40, 12 >>
ThrowOrigins ==
  { << SpawnPoints["red"][1].x, SpawnPoints["red"][1].y >>,
    << ColCentre(FuseCell[2]) - FuseTicks * DeltaY(300),
       BlockTop(FuseCell) + Px(BlockHeight) \div 2 - Fallen(FuseTicks) >> }
BombTick ==
  /\ running
  /\ gameState = "PLAYING"
  /\ gs.accumulator = 0
  /\ gs.thrownBombs # << >>
  /\ gs' = Update(gs, FixedTimestep)
  /\ ev' = EventOf("update", FixedTimestep, Silent)
  /\ UNCHANGED << gameState, queueCountdown, gameCountdown, snapshotCounter, roundNumber,
                  players, tokenDistributionInProgress, gamePaused, checks, endedTimers,
                  saves, distributions, tracing, currentTokenAmount, leaves, sent,
                  running >>
Throw(data) ==
  /\ gs.thrownBombs = << >>
  /\ BombThrown(data)
InitFuse ==
  /\ Is(RoundStarted)
  /\ gamePaused = FALSE
  /\ leaves = 0
  /\ sent = 0
  /\ running = TRUE
  /\ ev = Event("startGame", FALSE, RoundStarted)
NextFuse ==
  \/ BombTick
  \/ \E at \in ThrowOrigins : Throw(ThrowPayload(at))
SpecFuse == InitFuse /\ [][NextFuse]_vars

\* ------------------------------------------------------------------------
\* The pickup bomb: the two players of a round stand on the floor, each at
\* its spawn point, 2 px left of the bomb or on the bomb, with or without a
\* bomb in hand and with the key 'd' held or not; the bomb lies at its spawn
\* point, or was collected just now or almost the respawn delay ago. (A
\* bomb that lies at its spawn point was not taken in the tick before: no
\* player without a bomb stands on it.)
\* ------------------------------------------------------------------------
PickupBomb == InitializeBombs[1]
PickupXs(p) ==
  { p.x,
    PickupBomb.x - Px(BOMB_SIZE) \div 2 - CHAR_WIDTH \div 2 - Px(2),
    PickupBomb.x }
PickupBombStates ==
  { PickupBomb }
    \cup { [PickupBomb EXCEPT !.collected = TRUE, !.respawnTimer = t] :
             t \in { 0, Sec(BOMB_RESPAWN_DELAY) - 2 * FixedTimestep } }
AtPickup(p, x, hasBomb) ==
  [p EXCEPT !.x = x, !.y = PickupBomb.y, !.velocityY = 0, !.onGround = TRUE,
            !.hasBomb = hasBomb]
InitPickup ==
  /\ \E x1 \in PickupXs(RoundStarted.gs.players[1]),
        x2 \in PickupXs(RoundStarted.gs.players[2]),
        has \in [1..2 -> BOOLEAN],
        keys \in [1..2 -> { << >>, << KeyDown("d") >> }],
        bomb \in PickupBombStates :
       /\ bomb.collected
            \/ /\ CheckBombCollision([x |-> x1, y |-> PickupBomb.y], bomb) => has[1]
               /\ CheckBombCollision([x |-> x2, y |-> PickupBomb.y], bomb) => has[2]
       /\ Is([RoundStarted EXCEPT
             !.gs.players[1] = AtPickup(@, x1, has[1]),
             !.gs.players[2] = AtPickup(@, x2, has[2]),
             !.gs.playerInputs =
                [playerId \in 1..2 |-> ApplyInputEvents(NewInputState, keys[playerId])],
             !.gs.bombs[1] = bomb])
  /\ gamePaused = FALSE
  /\ leaves = 0
  /\ sent = 0
  /\ running = TRUE
  /\ ev = Event("startGame", FALSE, RoundStarted)
NextPickup == StepCall
SpecPickup == InitPickup /\ [][NextPickup]_vars

\* ------------------------------------------------------------------------
\* The round machine with the payouts followed: two sockets queue and
\* disconnect, and a handleTokenDistribution call in flight settles at any
\* time, or never
\* ------------------------------------------------------------------------
InitPayout ==
  /\ Is([Started EXCEPT !.tracing = {"distributions"}])
  /\ gamePaused = FALSE
  /\ leaves = 0
  /\ sent = 0
  /\ running = TRUE
  /\ ev = Event("constructor", FALSE, Started)
NextPayout ==
  \/ \E d \in LoopGaps : LoopIteration(d)
  \/ \E i \in 1..Len(checks), failed \in BOOLEAN : ResolveExpiry(i, failed)
  \/ \E id \in 1..MaxFairPlayers : Join(id)
  \/ \E id \in 1..MaxFairPlayers : Disconnect(id)
  \/ \E i \in 1..Len(endedTimers) : EndedTimerFire(i)
  \/ \E i \in 1..Len(distributions) : SettleDistribution(i)
SpecPayout == InitPayout /\ [][NextPayout]_vars

\* ------------------------------------------------------------------------
\* The round machine with the announcements followed: two sockets queue, the
\* admin pauses and unpauses, and the pause check of a broadcastGameState()
\* call settles at any time
\* ------------------------------------------------------------------------
InitNotify ==
  /\ Is(StartQueueCountdown([Constructed EXCEPT !.tracing = {"broadcasts"}]))
  /\ gamePaused = FALSE
  /\ leaves = 0
  /\ sent = 0
  /\ running = TRUE
  /\ ev = Event("constructor", FALSE, Started)
NextNotify ==
  \/ \E d \in LoopGaps : LoopIteration(d)
  \/ \E i \in 1..Len(checks), failed \in BOOLEAN : ResolveExpiry(i, failed)
  \/ \E id \in 1..MaxFairPlayers : Join(id)
  \/ \E i \in 1..Len(endedTimers) : EndedTimerFire(i)
  \/ TogglePause
  \/ \E i \in 1..Len(checks), failed \in BOOLEAN : ResolveRestart(i, failed)
  \/ \E i \in 1..Len(checks), failed \in BOOLEAN : SettleBroadcast(i, failed)
SpecNotify == InitNotify /\ [][NextNotify]_vars

\* ------------------------------------------------------------------------
\* The round machine with the tokens followed: the token contract is
\* configured, every queue phase buys tokens for its round (or fails to),
\* and a payout in flight ends at any time, or never
\* ------------------------------------------------------------------------
InitTokens ==
  /\ Is(StartQueueCountdown([Constructed EXCEPT !.tracing = {"distributions", "tokens"}]))
  /\ gamePaused = FALSE
  /\ leaves = 0
  /\ sent = 0
  /\ running = TRUE
  /\ ev = Event("constructor", FALSE, Started)
NextTokens ==
  \/ \E d \in LoopGaps : LoopIteration(d)
  \/ \E i \in 1..Len(checks), failed \in BOOLEAN : ResolveExpiry(i, failed)
  \/ \E id \in 1..MaxFairPlayers : Join(id)
  \/ \E i \in 1..Len(endedTimers) : EndedTimerFire(i)
  \/ \E i \in 1..Len(checks), bought \in BOOLEAN : SettleCrypto(i, bought)
  \/ \E i \in 1..Len(distributions) : SettleDistribution(i)
  \/ \E i \in 1..Len(distributions) : CompleteDistribution(i)
SpecTokens == InitTokens /\ [][NextTokens]_vars

\* ------------------------------------------------------------------------
\* The round machine with the tick of the last snapshot followed
\* ------------------------------------------------------------------------
InitTicks ==
  /\ Is(StartQueueCountdown([Constructed EXCEPT !.tracing = {"ticks"}]))
  /\ gamePaused \in BOOLEAN
  /\ leaves = 0
  /\ sent = 0
  /\ running = TRUE
  /\ ev = Event("constructor", FALSE, Started)
SpecTicks == InitTicks /\ [][NextSnap]_vars

\* ------------------------------------------------------------------------
\* The round state machine
\* ------------------------------------------------------------------------
PhaseCycleSteps ==
  { <<"QUEUE", "PLAYING">>, <<"PLAYING", "ENDED">>, <<"ENDED", "QUEUE">> }

\* C1: the phase gameState changes only along QUEUE -> PLAYING,
\* PLAYING -> ENDED and ENDED -> QUEUE.  (Refuted: a pause check of an
\* earlier expiry that settles during ENDED starts a game, ENDED -> PLAYING,
\* and the timer of the round before then fires, PLAYING -> QUEUE.)
C1_PhaseCycle ==
  [][gameState' # gameState => <<gameState, gameState'>> \in PhaseCycleSteps]_vars

\* C2: an expiry check that settles while fewer than two players are queued
\* resets the countdown to 60 s, leaves the phase as it is and starts no
\* round.
C2_FewerThanTwoStaysQueued ==
  [][(ev'.op = "expiryCallback" /\ Len(players) < 2)
       => /\ queueCountdown' = Sec(QUEUE_SECONDS)
          /\ gameState' = gameState
          /\ roundNumber' = roundNumber]_vars
\* an expiry check settled, unpaused, in QUEUE with one player queued
C2_Witness ==
  /\ ev.op = "expiryCallback" /\ ~ev.isPaused
  /\ gameState = "QUEUE" /\ Len(players) = 1
  /\ queueCountdown = Sec(QUEUE_SECONDS)

\* C3: an expiry check that observed paused = true resets the countdown and
\* starts no round, however many players are queued.
C3_PausedExpiryStaysQueued ==
  [][(ev'.op = "expiryCallback" /\ ev'.isPaused)
       => /\ queueCountdown' = Sec(QUEUE_SECONDS)
          /\ gameState' = gameState
          /\ roundNumber' = roundNumber]_vars
\* an expiry check observed the pause flag set with two or more players queued
C3_Witness ==
  /\ ev.op = "expiryCallback" /\ ev.isPaused
  /\ gameState = "QUEUE" /\ Len(players) >= 2
  /\ queueCountdown = Sec(QUEUE_SECONDS)

\* C4: at QUEUE -> PLAYING the queued players get the teams red, blue, red,
\* ... in join order, each is in the simulation's store exactly once with
\* that team, and the team sizes differ by at most one.
Alternating(i) == IF i % 2 = 1 THEN "red" ELSE "blue"
TeamSize(seq, team) == Cardinality({ i \in 1..Len(seq) : seq[i].team = team })
C4_AlternatingTeams ==
  [][(gameState = "QUEUE" /\ gameState' = "PLAYING")
       => /\ Len(players') = Len(players)
          /\ Len(gs'.players) = Len(players)
          /\ \A i \in 1..Len(players) :
               /\ players'[i].playerId = players[i].playerId
               /\ players'[i].team = Alternating(i)
               /\ gs'.players[i].playerId = players[i].playerId
               /\ gs'.players[i].team = Alternating(i)
          /\ Abs(TeamSize(gs'.players, "red") - TeamSize(gs'.players, "blue")) <= 1]_vars
\* a round was started from QUEUE with three players queued
C4_Witness ==
  /\ ev.op = "expiryCallback" /\ gameState = "PLAYING"
  /\ Len(gs.players) = 3 /\ gs.players[3].team = "red"
  /\ gs.gameTime = 0

\* C5: the gameEnded result emitted at the end of PLAYING counts the red and
\* the blue cells of the grid as it stands, and names the majority the
\* winner, or a tie.
Painted(colors, color) == Cardinality({ c \in DOMAIN colors : colors[c] = color })
C5_ResultCountsGrid ==
  [][(gameState = "PLAYING" /\ gameState' = "ENDED")
       => /\ Len(ev'.results) = 1
          /\ ev'.results[1].redBlocks = Painted(gs'.blockColors, "red")
          /\ ev'.results[1].blueBlocks = Painted(gs'.blockColors, "blue")
          /\ ev'.results[1].winner =
               (IF ev'.results[1].redBlocks > ev'.results[1].blueBlocks THEN "red"
                ELSE IF ev'.results[1].blueBlocks > ev'.results[1].redBlocks THEN "blue"
                ELSE "tie")]_vars
\* a round ended with more red cells than blue cells, and one ended in a tie
C5_Witness ==
  /\ gameState = "ENDED" /\ ev.op = "gameLoop" /\ Len(ev.results) = 1
  /\ ev.results[1].redBlocks > ev.results[1].blueBlocks
  /\ ev.results[1].blueBlocks > 0
  /\ ev.results[1].winner = "red"

\* C6: under fairness of the game loop, the timers and the pause checks,
\* every PLAYING phase reaches ENDED.  (Refuted: a PLAYING phase started
\* during ENDED is cut short by the timer of the round before.)
C6_PlayingReachesEnded == (gameState = "PLAYING") ~> (gameState = "ENDED")

\* C7: a game-loop iteration in QUEUE or ENDED leaves gameTime, the
\* accumulator, the players, the bombs and the block colours unchanged.
C7_NoTickOutsidePlaying ==
  [][(ev'.op = "gameLoop" /\ gameState # "PLAYING")
       => /\ gs'.gameTime = gs.gameTime
          /\ gs'.accumulator = gs.accumulator
          /\ gs'.players = gs.players
          /\ gs'.bombs = gs.bombs
          /\ gs'.thrownBombs = gs.thrownBombs
          /\ gs'.blockColors = gs.blockColors]_vars
\* the loop ran in ENDED (the timer of endGame aged to zero) without ending a
\* round, with painted cells on the grid
C7_Witness ==
  /\ ev.op = "gameLoop" /\ gameState = "ENDED" /\ ev.results = << >>
  /\ endedTimers # << >> /\ endedTimers[1] = 0
  /\ \E c \in BlockCells : gs.blockColors[c] # "white"

\* ------------------------------------------------------------------------
\* The fixed-timestep accumulator
\* ------------------------------------------------------------------------
\* C8: update(deltaTime) adds min(deltaTime, 0.1 s) to the accumulator and
\* runs the fixed step min(5, floor(accumulator / fixedTimestep)) times; every
\* step advances gameTime by one fixed timestep and takes one fixed timestep
\* from the accumulator (what is left above one timestep after the last step
\* is dropped by the clamp that ends update).
C8_FixedStepDrain ==
  [][ev'.op = "update"
       => LET total == gs.accumulator + Min(ev'.input, (MAX_DELTA_MS * UnitsPerSec) \div MS_PER_SEC)
              steps == (gs'.gameTime - gs.gameTime) \div (UnitsPerSec \div TICK_RATE)
              left == total - steps * (UnitsPerSec \div TICK_RATE)
          IN  /\ gs'.gameTime = gs.gameTime + steps * (UnitsPerSec \div TICK_RATE)
              /\ steps >= 0 /\ steps <= 5
              /\ steps = 5 \/ left < UnitsPerSec \div TICK_RATE
              /\ left >= 0
              /\ gs'.accumulator =
                   (IF left >= UnitsPerSec \div TICK_RATE THEN UnitsPerSec \div TICK_RATE
                    ELSE left)]_vars
\* update ran with a delta above the clamp and the cap of five steps was hit
C8_Witness ==
  /\ ev.op = "update" /\ ev.input = Ms(250)
  /\ gs.gameTime = 7 * FixedTimestep
  /\ gs.accumulator = FixedTimestep

\* ------------------------------------------------------------------------
\* Snapshots
\* ------------------------------------------------------------------------
\* the cells listed in the blockChanges of a snapshot
ChangeCells(snap) == { <<b.row, b.col>> : b \in snap.blockChanges }

C10_AckIsHighestSequence ==
  \A i \in 1..Len(ev.snapshots) :
    \A playerId \in DOMAIN ev.snapshots[i].highest :
      /\ playerId \in DOMAIN ev.snapshots[i].snap.lastProcessedSequences
      /\ ev.snapshots[i].snap.lastProcessedSequences[playerId]
           = ev.snapshots[i].highest[playerId]

\* C11: handling a playerStateSync message, in any phase and with any
\* payload, changes no variable of the server: the fields of the manager and
\* of the store stay as they are, and the server goes on running.
\* (Refuted: a message without a payload makes the destructuring throw.)
C11_StateSyncChangesNothing ==
  [][ev'.op = "handlePlayerStateSync"
       => /\ ServerState' = ServerState
          /\ running' = running]_vars

\* C12: no position of the authoritative state is assigned from a value a
\* client reports: the positions after a 'bombThrown' message is handled are
\* the same whatever x and y the message carries.
\* (Refuted: throwBomb puts the bomb at the x, y of the message.)
C12_NoClientPosition ==
  [][(ev'.op = "handleBombThrown" /\ ev'.input.present)
       => \A at \in ReportedPositions :
            Positions(HandleBombThrown(Mgr, [ev'.input EXCEPT !.x = at[1],
                                                             !.y = at[2]]).gs)
              = Positions(gs')]_vars

\* C13: an invalid input event (an unknown key, an event without a string
\* key, a packet without an inputs list, an unknown playerId, no payload) is
\* dropped silently: handling it raises no error, leaves the latched input
\* state of every player as it was and does not stop the game loop.
\* (Refuted: an event without a key, a packet without a list and a message
\* without a payload make the handler throw during a round.)
C13_InvalidInputDropped ==
  [][(ev'.op = "handlePlayerInput" /\ ev'.input \in InvalidPackets)
       => /\ ~ev'.threw
          /\ running'
          /\ gs'.playerInputs = gs.playerInputs]_vars

\* ------------------------------------------------------------------------
\* The simulation step of a player
\* ------------------------------------------------------------------------
Airborne(q) == ~q.onGround /\ ~IsTouchingBlock(q.x, q.y) /\ q.velocityY > 0
JumpQuota(t) ==
  /\ t.beforeJump.onGround
       => t.afterJump.jumpsUsed = 1 /\ t.afterJump.velocityY = JUMP_POWER
  /\ (Airborne(t.beforeJump) /\ t.beforeJump.jumpsUsed = 1)
       => t.afterJump.jumpsUsed = 2 /\ t.afterJump.velocityY = JUMP_POWER
  /\ (Airborne(t.beforeJump) /\ t.beforeJump.jumpsUsed = 2)
       => /\ t.afterJump.jumpsUsed = t.beforeJump.jumpsUsed
          /\ t.afterJump.velocityY = t.beforeJump.velocityY
\* processJumpInput ignores the key over a jump pad
OverJumpPad(q) ==
  IsOnJumpPad(q.x, GetGroundY(q.x, q.y)) \/ CheckJumpPadCollision(q.x, q.y)

JumpCase(t, onGround, jumpsUsed) ==
  /\ JustPressedW(t.inp) /\ ~OverJumpPad(t.beforeJump)
  /\ IF onGround THEN t.beforeJump.onGround
     ELSE Airborne(t.beforeJump) /\ t.beforeJump.jumpsUsed = jumpsUsed
C14_WitnessGround == ev.op = "update" /\ JumpCase(ev.steps[1], TRUE, 0)
C14_WitnessSecond == ev.op = "update" /\ JumpCase(ev.steps[1], FALSE, 1)

\* C15: a step finds the jump key "just pressed" only if a key event has
\* turned it from released to pressed since the step before, and between two
\* releases of the key (however many steps it is held, however many times
\* the press is repeated) at most one step finds it so.
C15_EdgeTriggeredJump ==
  /\ \A i \in DOMAIN ev.steps :
       JustPressedW(ev.steps[i].inp) => ev.steps[i].inp.edge
  /\ \A playerId \in DOMAIN gs.playerInputs :
       gs.playerInputs[playerId].triggers <= 1
\* the key was pressed, a step made the jump, and the step after found the
\* key still held and made none
C15_Witness ==
  /\ ev.op = "update"
  /\ ev.steps[1].inp.w /\ ~JustPressedW(ev.steps[1].inp)
  /\ ev.steps[1].inp.triggers = 1
  /\ ev.steps[1].afterJump = ev.steps[1].beforeJump

\* the player enters the vertical movement moving upward, and overlaps a
\* jump pad where it is or where the movement takes it
UpThroughJumpPad(v) ==
  /\ v.velocityY < 0
  /\ CheckJumpPadCollision(v.x, v.y) \/ CheckJumpPadCollision(v.x, NewY(v))

\* C16: a player that moves upward through a jump pad, at whatever speed, is
\* not stopped by it: checkCollision reports no jump pad, the vertical
\* movement takes the tentative new y, and velocityY is not set to zero.
C16_JumpPadOneWay ==
  \A i \in DOMAIN ev.steps :
    UpThroughJumpPad(ev.steps[i].beforeVerticalMove)
      => /\ \A c \in CollidingCells(ev.steps[i].beforeVerticalMove.x,
                                    NewY(ev.steps[i].beforeVerticalMove),
                                    ev.steps[i].beforeVerticalMove.velocityY) :
              ~IsJumpPad(c)
         /\ ev.steps[i].afterVerticalMove.y = NewY(ev.steps[i].beforeVerticalMove)
         /\ ev.steps[i].afterVerticalMove.velocityY < 0
\* a player has moved up inside the jump pad
C16_Witness ==
  /\ ev.op = "update"
  /\ UpThroughJumpPad(ev.steps[1].beforeVerticalMove)
  /\ CheckJumpPadCollision(ev.steps[1].beforeVerticalMove.x,
                           NewY(ev.steps[1].beforeVerticalMove))
  /\ gs.players[1].y < ev.steps[1].start.y

\* the player stands still on the top of a block that is no jump pad
RestingOnGround(p) ==
  /\ GetGroundY(p.x, p.y) = p.y
  /\ ~HasJumpPadAt(p.x, p.y)
  /\ p.velocityY = 0
NoKeyHeld(inp) == ~inp.a /\ ~inp.d /\ ~inp.w /\ ~inp.s

\* C17: a player that rests on regular ground with velocityY = 0 and no key
\* held has, after one simulation step, the same y, velocityY = 0 and
\* onGround = true.
C17_GroundSnapIdempotent ==
  \A i \in DOMAIN ev.steps :
    (RestingOnGround(ev.steps[i].start) /\ NoKeyHeld(ev.steps[i].inp))
      => /\ gs.players[i].y = ev.steps[i].start.y
         /\ gs.players[i].velocityY = 0
         /\ gs.players[i].onGround
\* the first player rested in the middle of the floor; gravity moved it
\* below the block top and the final ground check put it back
C17_Witness ==
  /\ ev.op = "update"
  /\ RestingOnGround(ev.steps[1].start) /\ NoKeyHeld(ev.steps[1].inp)
  /\ ev.steps[1].start.x = ColCentre(12)
  /\ ev.steps[1].afterVerticalMove.y > ev.steps[1].start.y
  /\ gs.players[1].y = ev.steps[1].start.y

\* the values the spawn counters of the store can have (they are read modulo
\* the number of spawn points of the team)
SpawnCounters == [Teams -> 0..(Len(SpawnPoints["red"]) - 1)]

\* C18: the step of a player is a function of the player's state, its input
\* state, the map and dt: from the same player and input state it leaves the
\* same player, whatever the rest of the store holds, also when the step
\* respawns the player at a spawn point of its team.
\* (Refuted: the respawn takes the spawn point that the store's round-robin
\* counter of the team selects.)
C18_StepIsFunctionOfPlayerAndInput ==
  \A i \in DOMAIN ev.steps :
    \A si, other \in SpawnCounters :
      StepPlayer(ev.steps[i].start, ev.steps[i].inp, si).p
        = StepPlayer(ev.steps[i].start, ev.steps[i].inp, other).p

\* applyMovement found the moved character colliding with a block
MoveCollides(g, dx) ==
  /\ dx # 0
  /\ ~AlreadyTouching(g, dx)
  /\ CheckCollision(g.x + dx, g.y, g.velocityY, NoValue).collided
\* the block checkCollision found
CollidedBlock(g, dx) == FirstCell(CollidingCells(g.x + dx, g.y, g.velocityY))

C19_WitnessLeft ==
  /\ ev.op = "update"
  /\ MoveCollides(ev.steps[1].beforeMovement, MoveDx(ev.steps[1].inp))
  /\ MoveDx(ev.steps[1].inp) < 0
  /\ ev.steps[1].beforeJump.x = BlockRight(<< 39, 17 >>) + CHAR_WIDTH \div 2

\* C20: after a tick in which two players of opposite teams touch the same
\* cell, the cell has the colour of the team of the toucher that comes last
\* in the order of the player store, whatever colour the cell had before.
Touchers(c) == { i \in 1..Len(gs.players) : IsTouching(gs.players[i], c) }
Contested(c) ==
  \E i, j \in Touchers(c) : gs.players[i].team # gs.players[j].team
C20_LastToucherWins ==
  ev.op = "update" =>
    \A c \in BlockCells :
      Contested(c) =>
        \E i \in Touchers(c) :
          /\ \A j \in Touchers(c) : j <= i
          /\ gs.blockColors[c] = gs.players[i].team
\* a contested cell whose last toucher is the red player that comes after
\* the blue one in the store, and whose colour the tick changed to red
C20_Witness ==
  /\ ev.op = "update"
  /\ \E c \in BlockCells :
       /\ Contested(c)
       /\ gs.players[3].team = "red" /\ 3 \in Touchers(c)
       /\ gs.blockColors[c] = "red"
       /\ c \in gs.hist.changed
\* a contested cell whose last toucher is blue, after a red one
C20_WitnessBlue ==
  /\ ev.op = "update"
  /\ \E c \in BlockCells :
       /\ Contested(c)
       /\ Touchers(c) = {1, 2}
       /\ gs.blockColors[c] = "blue"

\* C21: setBlockColor on a cell that holds a block gives the cell the colour
\* and marks it dirty when the colour differs from the cell's; when the
\* colour is the cell's already, the cell is marked dirty only if it is at a
\* spawn point or directly beneath one; on a cell without a block or outside
\* the grid, nothing changes.
SpawnAdjacent(cell) ==
  \E t \in Teams : \E i \in 1..Len(MapSpawns[t]) :
    /\ cell[2] = MapSpawns[t][i].col
    /\ cell[1] \in { MapSpawns[t][i].row, MapSpawns[t][i].row + 1 }
InGrid(cell) == cell[1] \in 0..(MapRows - 1) /\ cell[2] \in 0..(MapCols - 1)
C21_PaintCommitRule ==
  [][ev'.op = "setBlockColor" =>
       LET cell == ev'.input.cell
           color == ev'.input.color
       IN  IF InGrid(cell) /\ cell \in BlockCells
           THEN /\ gs'.blockColors = [gs.blockColors EXCEPT ![cell] = color]
                /\ gs'.changedBlocks =
                     IF gs.blockColors[cell] # color \/ SpawnAdjacent(cell)
                     THEN gs.changedBlocks \cup {cell}
                     ELSE gs.changedBlocks
           ELSE gs' = gs]_vars
\* the block beneath a spawn point was given the colour it had, and is dirty
C21_Witness ==
  /\ ev.op = "setBlockColor"
  /\ ev.input.cell = << 41, 10 >>
  /\ ev.input.cell \in gs.hist.spawn
  /\ ev.input.cell \in gs.changedBlocks
\* a block away from the spawn points was given the colour it had, and is
\* not dirty
C21_WitnessUnchanged ==
  /\ ev.op = "setBlockColor"
  /\ ev.input.cell = << 36, 11 >>
  /\ gs.blockColors[ev.input.cell] = ev.input.color
  /\ gs.changedBlocks = {}

\* C22: in one simulation tick every player is stepped before a colour is
\* committed: the stepping of the players writes no colour, and after the
\* tick a cell has the team of the last player that touches it at the
\* positions the players have after their steps of this tick, and the
\* colour it had before the tick if no player touches it there.
C22_PlayersStepBeforePaint ==
  [][ev'.op = "update" =>
       /\ StepPlayers(gs, 1).blockColors = gs.blockColors
       /\ \A c \in BlockCells :
            LET touchers == { i \in 1..Len(gs'.players) : IsTouching(gs'.players[i], c) }
            IN  IF touchers = {} THEN gs'.blockColors[c] = gs.blockColors[c]
                ELSE \E i \in touchers :
                       /\ \A j \in touchers : j <= i
                       /\ gs'.blockColors[c] = gs'.players[i].team]_vars
\* a player moved onto a cell it did not touch before its step, and the
\* tick gave the cell the colour of its team
C22_Witness ==
  /\ ev.op = "update"
  /\ \E i \in 1..Len(gs.players) : \E c \in BlockCells :
       /\ IsTouching(gs.players[i], c)
       /\ ~IsTouching(ev.steps[i].start, c)
       /\ gs.blockColors[c] = gs.players[i].team
       /\ c \in gs.hist.changed

\* C23: in the step in which the fuse of a thrown bomb runs out, the blocks
\* within the explosion radius of the bomb get the colour of the bomb's
\* team; at the least, the block that holds the bomb's position does.
Holds(c, x, y) ==
  /\ BlockLeft(c) <= x /\ x <= BlockRight(c)
  /\ BlockTop(c) <= y /\ y <= BlockBottom(c)
FuseRunsOut(b) == MoveThrownBomb(b).timer > Sec(BOMB_FUSE)
C23_FuseExpiryPaints ==
  [][ev'.op = "update" =>
       \A k \in 1..Len(gs.thrownBombs) :
         FuseRunsOut(gs.thrownBombs[k]) =>
           \A c \in BlockCells :
             Holds(c, MoveThrownBomb(gs.thrownBombs[k]).x,
                      MoveThrownBomb(gs.thrownBombs[k]).y)
               => gs'.blockColors[c] = gs.thrownBombs[k].team]_vars

\* C24: in a tick, a pickup bomb that was not collected becomes collected
\* only if a player that held no bomb overlaps it, and that player holds a
\* bomb afterwards; every bomb is taken by at most one player and every
\* player takes at most one bomb, so as many players get a bomb as bombs are
\* taken; a collected bomb is available again in the tick in which its
\* respawn timer reaches the delay, and in no tick before.
Taken(k) == gs'.bombs[k].collected /\ gs'.bombs[k].respawnTimer = 0
Gainers == { i \in 1..Len(gs.players) : ~gs.players[i].hasBomb /\ gs'.players[i].hasBomb }
RespawnDue(b) == b.respawnTimer + FixedTimestep >= Sec(BOMB_RESPAWN_DELAY)
C24_PickupBombLifecycle ==
  [][ev'.op = "update" =>
       /\ \A k \in 1..Len(gs.bombs) :
            /\ Taken(k) =>
                 \E i \in Gainers : CheckBombCollision(gs'.players[i], gs.bombs[k])
            /\ gs.bombs[k].collected =>
                 ((Taken(k) \/ ~gs'.bombs[k].collected) <=> RespawnDue(gs.bombs[k]))
       /\ Cardinality(Gainers) = Cardinality({ k \in 1..Len(gs.bombs) : Taken(k) })]_vars

\* C25: the payout of a round works on the players, with their teams, that
\* were queued when the round ended: the call made by endGame carries the
\* round number, the winner and a copy of the players of that moment, no
\* later step changes the arguments of a call in flight, and the winners a
\* call considers when it resumes are the players of the winning team among
\* its own arguments, whatever was cleared, joined, left or started since.
RoundEnds == gameState = "PLAYING" /\ gameState' = "ENDED"
WinnersAmong(d) ==
  { e \in { d.playersSnapshot[i] : i \in 1..Len(d.playersSnapshot) } :
      e.team = d.winnerTeam }
C25_PayoutOnSnapshot ==
  [][/\ RoundEnds =>
          /\ distributions' =
               Append(distributions,
                      [roundNumber |-> roundNumber,
                       winnerTeam |-> ev'.results[1].winner,
                       playersSnapshot |-> players,
                       tokenAmount |-> currentTokenAmount])
          /\ players' = << >>
     /\ ev'.op = "distributionSettled" =>
          \E k \in 1..Len(distributions) :
            /\ distributions' = RemoveAt(distributions, k)
            /\ ev'.input = [roundNumber |-> distributions[k].roundNumber,
                            winners |-> WinnersAmong(distributions[k])]
     /\ (~RoundEnds /\ ev'.op # "distributionSettled") =>
          distributions' = distributions]_vars
\* the payout of a round resumes with winners after the next round has
\* started with other players in the queue
C25_Witness ==
  /\ ev.op = "distributionSettled"
  /\ ev.input.winners # {}
  /\ roundNumber > ev.input.roundNumber
  /\ gameState = "PLAYING"
  /\ \E e \in ev.input.winners : \A i \in 1..Len(players) : players[i] # e

\* C26: at most one handleTokenDistribution call is in flight for a round
\* number, and tokenDistributionInProgress is true exactly while a call is
\* in flight, also when the calls of two rounds overlap.
C26_FlagWhileInFlight ==
  /\ tokenDistributionInProgress <=> distributions # << >>
  /\ \A i, j \in 1..Len(distributions) :
       distributions[i].roundNumber = distributions[j].roundNumber => i = j


\* ------------------------------------------------------------------------
\* The announcements of the phase changes
\* ------------------------------------------------------------------------
Emitted(notices, name) == \E i \in 1..Len(notices) : notices[i] = name
PendingBroadcasts(cs) == Len(SelectSeq(cs, LAMBDA c : c = "broadcast"))
PhaseChange(from, to) == gameState = from /\ gameState' = to
\* C27: the handler that moves QUEUE->PLAYING emits 'gameState' to every
\* socket, the handler that moves PLAYING->ENDED emits 'gameEnded', and the
\* handler that moves ENDED->QUEUE calls broadcastGameState(), whose
\* 'queueState' is emitted when the pause check of the call settles
C27_PhaseChangeAnnounced ==
  [][ /\ PhaseChange("QUEUE", "PLAYING") => Emitted(ev'.notices, "gameState")
      /\ PhaseChange("PLAYING", "ENDED") => Len(ev'.results) = 1
      /\ PhaseChange("ENDED", "QUEUE") =>
            PendingBroadcasts(checks') = PendingBroadcasts(checks) + 1
      /\ PendingBroadcasts(checks') < PendingBroadcasts(checks) =>
            /\ PendingBroadcasts(checks') = PendingBroadcasts(checks) - 1
            /\ ev'.notices = << "queueState" >> ]_vars
\* the queue restarted by the timer of endGame after a round, its
\* announcement waiting for the pause check
C27_Witness ==
  /\ ev.op = "endedTimer"
  /\ roundNumber >= 1
  /\ gameState = "QUEUE"
  /\ PendingBroadcasts(checks) >= 1
\* ... and emitted after a round
C27_WitnessEmitted ==
  /\ ev.op = "broadcastGameState"
  /\ roundNumber >= 1
  /\ ev.notices = << "queueState" >>
\* a round started with its announcement
C27_WitnessPlaying ==
  /\ ev.op = "expiryCallback"
  /\ gameState = "PLAYING"
  /\ Emitted(ev.notices, "gameState")


\* ------------------------------------------------------------------------
\* The tick of the snapshots
\* ------------------------------------------------------------------------
\* C28: the tick of every snapshot sent is at least the tick of the snapshot
\* sent before it, in every phase and from one round to the next.
\* (Refuted: startQueueCountdown and startGame set gameTime back to 0.)
C28_TickNeverDecreases ==
  [][ \A k \in 1..Len(ev'.snapshots) :
        ev'.snapshots[k].snap.tick >=
          IF k = 1 THEN gs.sentTick ELSE ev'.snapshots[k - 1].snap.tick ]_vars


\* ------------------------------------------------------------------------
\* The players of a round
\* ------------------------------------------------------------------------
AtSpawnPoint(p) ==
  \E i \in 1..Len(SpawnPoints[p.team]) :
    p.x = SpawnPoints[p.team][i].x /\ p.y = SpawnPoints[p.team][i].y
FreshlySpawned(p) ==
  AtSpawnPoint(p) /\ p.velocityY = 0 /\ p.jumpsUsed = 0 /\ ~p.hasBomb
RoundStarts == roundNumber' = roundNumber + 1
NoPlayerOutsideRound == gameState \in {"QUEUE", "ENDED"} => gs.players = << >>
\* C29: in QUEUE and in ENDED the simulation holds no player, and the step
\* that starts a round leaves every queued socket, and nobody else, in the
\* store at a spawn point of its team with velocityY = 0, jumpsUsed = 0 and
\* no bomb, whatever the store held before
C29_NoPlayerStateAcrossRounds ==
  /\ NoPlayerOutsideRound
  /\ [][ /\ NoPlayerOutsideRound'
         /\ RoundStarts =>
              /\ Len(gs'.players) = Len(players')
              /\ \A i \in 1..Len(gs'.players) :
                   /\ gs'.players[i].playerId = players'[i].playerId
                   /\ gs'.players[i].team = players'[i].team
                   /\ FreshlySpawned(gs'.players[i]) ]_vars
\* the second round has just started with the sockets of the first one,
\* which ended with its players fallen from their spawn points
C29_Witness ==
  /\ roundNumber = 2
  /\ tokenDistributionInProgress
  /\ ev.op = "expiryCallback"
  /\ gameState = "PLAYING"
  /\ Len(gs.players) >= 2
  /\ \A i \in 1..Len(gs.players) : FreshlySpawned(gs.players[i])
\* a round under way whose players have left their spawn state
C29_WitnessMoved ==
  /\ gameState = "PLAYING"
  /\ gs.players # << >>
  /\ \A i \in 1..Len(gs.players) : ~FreshlySpawned(gs.players[i])


\* ------------------------------------------------------------------------
\* The limits of a player's state
\* ------------------------------------------------------------------------
WithinLimits(p) ==
  /\ p.jumpsUsed \in 0..MAX_JUMPS
  /\ p.velocityY <= MAX_FALL_SPEED
  /\ p.velocityY >= JUMP_PAD_BOUNCE
\* C30: after a simulation step every player has jumpsUsed in 0..MAX_JUMPS
\* and a velocityY from JUMP_PAD_BOUNCE to MAX_FALL_SPEED, whatever keys
\* are held
C30_StateWithinLimits ==
  ev.op = "update" => \A i \in 1..Len(gs.players) : WithinLimits(gs.players[i])
\* the second step of a fall at the terminal velocity: gravity was added to
\* MAX_FALL_SPEED and taken off again
C30_Witness ==
  /\ ev.op = "update"
  /\ gs.gameTime = 2 * FixedTimestep
  /\ gs.players[1].velocityY = MAX_FALL_SPEED
  /\ ~gs.players[1].onGround
\* a step that bounced the player off the jump pad
C30_WitnessBounce ==
  /\ ev.op = "update"
  /\ gs.players[1].velocityY = JUMP_PAD_BOUNCE
\* a step that used the last jump
C30_WitnessJumps ==
  /\ ev.op = "update"
  /\ gs.players[1].jumpsUsed = MAX_JUMPS
  /\ gs.players[1].velocityY = JUMP_POWER + GravityPerTick


\* ------------------------------------------------------------------------
\* The identity of a connection
\* ------------------------------------------------------------------------
FromClient == ev'.op \in {"handlePlayerInput", "handleBombThrown"}
HasBombOf(s, playerId) ==
  IF HasPlayer(s.players, playerId)
  THEN s.players[PlayerIndex(s.players, playerId)].hasBomb ELSE FALSE
AckOf(s, playerId) ==
  IF playerId \in DOMAIN s.lastProcessedSequence
  THEN s.lastProcessedSequence[playerId] ELSE NoValue
\* C31: a 'playerInput' or 'bombThrown' message that arrives on a socket
\* leaves the latched keys, the acknowledged sequence and the hasBomb flag
\* of every player but that socket's as they were.
\* (Refuted: the handlers take the playerId from the message.)
C31_OnlyOwnPlayer ==
  [][ FromClient =>
        \A other \in PlayerIds \ { ev'.input.socketId } :
          /\ InputOfId(gs', other) = InputOfId(gs, other)
          /\ AckOf(gs', other) = AckOf(gs, other)
          /\ HasBombOf(gs', other) = HasBombOf(gs, other) ]_vars


\* ------------------------------------------------------------------------
\* The start of a round
\* ------------------------------------------------------------------------
\* C32: startGame runs at most once per QUEUE phase: the step in which it
\* runs (roundNumber grows by one and the queued sockets are spawned) is
\* taken in QUEUE, which it leaves, also when pause checks of an expired
\* countdown are still pending while the loop goes on.
\* (Refuted: the countdown expires again 0.1 s later under a pending check,
\* and every callback calls startGame.)
C32_OneStartPerQueuePhase ==
  [][ RoundStarts => gameState = "QUEUE" ]_vars


\* ------------------------------------------------------------------------
\* The snapshot of a single connection
\* ------------------------------------------------------------------------
\* handleSpectatorJoin and handlePlayerJoin emit their snapshot to the
\* socket that connected or joined; every other snapshot goes to all sockets
ToOneSocket(op) == op \in {"handleSpectatorJoin", "handlePlayerJoin"}
\* C33: the snapshot that a join or a spectator connection sends to its own
\* socket takes no cell from the dirty set: the cells that were waiting for
\* the next broadcast are still waiting after it.
\* (Refuted: getSnapshot clears changedBlocks whoever the snapshot is for.)
C33_JoinKeepsDirtyCells ==
  [][ ToOneSocket(ev'.op) /\ ev'.snapshots # << >> =>
        gs.changedBlocks \subseteq gs'.changedBlocks ]_vars


\* ------------------------------------------------------------------------
\* The per-player maps of the store
\* ------------------------------------------------------------------------
StoreIds(s) == { s.players[i].playerId : i \in 1..Len(s.players) }
\* C34: the keys of playerInputs and of lastProcessedSequence are players of
\* the store in every state (so that none is left after a round, and a
\* snapshot in QUEUE carries no acknowledged sequence).
\* (Refuted: endGame and startQueueCountdown clear the players only.)
C34_NoStalePlayerEntry ==
  /\ DOMAIN gs.playerInputs \subseteq StoreIds(gs)
  /\ DOMAIN gs.lastProcessedSequence \subseteq StoreIds(gs)


\* ------------------------------------------------------------------------
\* The bomb in a player's hand
\* ------------------------------------------------------------------------
BombCreated == Len(gs'.thrownBombs) > Len(gs.thrownBombs)
\* C35: a step that adds a thrown bomb adds one, for a player of the store
\* who holds a bomb, and leaves that player without a bomb (so that nobody
\* throws more bombs than it has picked up).
\* (Refuted: throwBomb pushes the bomb before it looks the player up.)
C35_ThrowTakesHeldBomb ==
  [][ BombCreated =>
        /\ Len(gs'.thrownBombs) = Len(gs.thrownBombs) + 1
        /\ HasPlayer(gs.players, ev'.input.playerId)
        /\ HasBombOf(gs, ev'.input.playerId)
        /\ ~HasBombOf(gs', ev'.input.playerId) ]_vars


\* ------------------------------------------------------------------------
\* The tokens of the next round
\* ------------------------------------------------------------------------
\* C36: the end of the payout of a round leaves in place the token
\* information that a later queue phase has stored for a later round.
\* (Refuted: until startGame this.roundNumber is still the round of the
\* payout, and the guard of the clearing compares with it.)
C36_LaterTokensKept ==
  [][ /\ ev'.op \in {"distributionSettled", "distributionCompleted"}
      /\ currentTokenAmount # NoTokens
      /\ currentTokenAmount > ev'.input.roundNumber
      => currentTokenAmount' = currentTokenAmount ]_vars


\* ------------------------------------------------------------------------
\* The phase of an announcement
\* ------------------------------------------------------------------------
\* C37: 'queueState' is emitted to the sockets in QUEUE only, also by a
\* broadcastGameState() call that was made in QUEUE and whose pause check
\* settles after the round has started.
\* (Refuted: the phase is tested before the await and not after it.)
C37_QueueStateOnlyInQueue ==
  Emitted(ev.notices, "queueState") => gameState = "QUEUE"


\* ------------------------------------------------------------------------
\* What update leaves in the accumulator
\* ------------------------------------------------------------------------
StepsRun == (gs'.gameTime - gs.gameTime) \div FixedTimestep
\* C38: when update returns, the accumulator is from 0 to one fixed
\* timestep; it is a whole timestep only when the five steps of the cap
\* were run (what was left above it is dropped), and less than a timestep
\* when fewer were run
C38_AccumulatorWithinOneStep ==
  [][ ev'.op = "update" =>
        /\ gs'.accumulator >= 0
        /\ gs'.accumulator <= FixedTimestep
        /\ StepsRun < MAX_UPDATES => gs'.accumulator < FixedTimestep
        /\ gs'.accumulator = FixedTimestep =>
              gs.accumulator + Min(ev'.input, Ms(MAX_DELTA_MS))
                >= (MAX_UPDATES + 1) * FixedTimestep ]_vars
\* the first call found a whole timestep in the accumulator and was given
\* the longest delta: five steps were run and two timesteps were left, of
\* which one was dropped
C38_Witness ==
  /\ ev.op = "update" /\ ev.input = Ms(MAX_DELTA_MS)
  /\ gs.gameTime = MAX_UPDATES * FixedTimestep
  /\ gs.accumulator = FixedTimestep


\* ------------------------------------------------------------------------
\* Messages outside a round
\* ------------------------------------------------------------------------
HandledOutsideRound ==
  /\ ev'.op \in {"handlePlayerInput", "handleBombThrown"}
  /\ gameState # "PLAYING"
\* C39: a 'playerInput' or 'bombThrown' message handled in QUEUE or ENDED
\* changes nothing of the game server (the keys held, the sequence numbers
\* acknowledged, the bombs, the hasBomb flags), emits no 'bombThrown' and
\* does not throw
C39_IgnoredOutsideRound ==
  [][ HandledOutsideRound =>
        /\ gs' = gs
        /\ gameState' = gameState
        /\ ev'.notices = << >>
        /\ ~ev'.threw /\ running' ]_vars
\* a throw that carries a payload is handled after the round has ended
C39_Witness ==
  /\ ev.op = "handleBombThrown" /\ ev.input.present
  /\ gameState = "ENDED"
  /\ roundNumber >= 1
\* a key press is handled in the queue
C39_WitnessInput ==
  /\ ev.op = "handlePlayerInput" /\ ev.input.present
  /\ gameState = "QUEUE"
\* a message without a payload is handled in the queue
C39_WitnessNoData ==
  /\ ev.op = "handleBombThrown" /\ ~ev.input.present
  /\ gameState = "QUEUE" /\ running

====
